---- MODULE Spec2Model ----
(***************************************************************************)
(* Device connectivity core of Delta_Web: the PLC connection registry      *)
(* (plcService: activeConnections), the MQTT broker gateway's platform to  *)
(* device RPC (MqttBroker.sendRpcRequest) and the polling scheduler        *)
(* (startPolling / stopPolling), telemetry ingestion                       *)
(* (TelemetryService.saveTelemetry) and the broker's inbound path          *)
(* (MqttBroker.authenticate / handlePublish), the telemetry queries        *)
(* (getLatestByDevice, aggregateData, getTimeseries) and the PLC register  *)
(* codec with the register reads and writes built on it                    *)
(* (processRegisterValue, prepareValueForWrite, fetchLatestData), and the  *)
(* registry's periodic connection check (plcService: setInterval).  Each   *)
(* subsystem has its own specification over the shared state; a            *)
(* subsystem's actions leave the other subsystems' variables unchanged.    *)
(***************************************************************************)
EXTENDS Integers, Sequences, FiniteSets, TLC

\* ------------------------------------------------------------------ bounds
NumDevices == 2
NumCallers == 2
MaxClients == 3

Devices == 1..NumDevices
Callers == 1..NumCallers
ClientIds == 1..MaxClients
NoClient == 0

VARIABLES
  activeConnections,  \* plcService: deviceId -> registered client, or NoClient
  clientState,        \* ModbusRTU client -> "unused" | "created" | "open" | "closed"
  clientDev,          \* ModbusRTU client -> the device it was created for
  nextClient,         \* next ModbusRTU object to be constructed
  deviceStatus,       \* Device record status: "offline" | "online" | "error"
  caller              \* the async call each concurrent caller is suspended in

regVars == <<activeConnections, clientState, clientDev, nextClient, deviceStatus, caller>>

MaxReq == 2
NumRpcDevices == 1
TickMs == 3000
MaxNow == 13000
RpcTimeout == 10000

RpcDevices == 1..NumRpcDevices
ReqIds == 1..MaxReq
Timeouts == {RpcTimeout}
Never == -1

VARIABLES
  now,             \* Date.now(), in ms
  rpc,             \* one record per sendRpcRequest call: its closure and promise
  nextReq,         \* number of the next sendRpcRequest call
  subs,            \* topics the internal client is subscribed to
  inflight,        \* response messages routed to the internal client, not yet received
  clientEnded,     \* close() has ended the internal client
  pendingAtClose   \* the requests that were pending when close() ran

rpcVars == <<now, rpc, nextReq, subs, inflight, clientEnded, pendingAtClose>>

MaxTimers == 3
MaxInFlight == 2

TimerIds == 1..MaxTimers
NoTimer == 0

VARIABLES
  pollingTimer,    \* global['polling:' + deviceId]: the device's interval, or NoTimer
  activeTimers,    \* intervals set by setInterval and not cleared
  timerDevice,     \* interval -> the device its callback polls
  nextTimer,       \* next interval handle setInterval returns
  ticksRunning,    \* interval -> extractAndSaveData runs it started, still running
  pollLog          \* device -> what the last startPolling / stopPolling did

pollVars == <<pollingTimer, activeTimers, timerDevice, nextTimer, ticksRunning, pollLog>>

MaxBatch == 5
NumMqttClients == 1

MqttClients == 1..NumMqttClients
NoMqttClient == 0

VARIABLES
  tcall,           \* the saveTelemetry call in progress, or the last one finished
  stored,          \* the Telemetry collection: the readings persisted
  rulesEngine,     \* this.rulesEngineService is set
  mclient,         \* broker client objects: credentials presented, isInternal, deviceInfo
  lastPublish,     \* what handlePublish did with the last packet
  saveLog,         \* saveTelemetry calls made by processTelemetryData
  sysLog           \* internal/system messages published by the process* handlers

telVars == <<tcall, stored, rulesEngine>>
brokerVars == <<mclient, lastPublish, saveLog, sysLog>>

MaxDocs == 3
MaxSamples == 4

VARIABLES
  telemetryDocs,   \* the Telemetry documents in the collection, in insertion order
  lastQuery        \* the query being answered and its answer

queryVars == <<telemetryDocs, lastQuery>>

MaxRegisters == 3
MaxWrites == 1

VARIABLES
  codecCall,       \* the last processRegisterValue / prepareValueForWrite call
  fetchCall,       \* the fetchLatestData call in progress, or the last one finished
  wireWrites       \* what writeRegister calls have written to the device

plcVars == <<codecCall, fetchCall, wireWrites>>

ClockStep == 2000
MaxRegNow == 4000
MaxFailures == 3
ReconnectInterval == 3000

Sweeper == NumCallers + 1
AllCallers == Callers \cup {Sweeper}

VARIABLES
  regNow,          \* new Date(), in ms, as the connection registry reads it
  lastConnected,   \* plcService: deviceId -> lastConnected of its entry, or Never
  sweep,           \* the periodic connection check: where its callback is
  pingFailures     \* deviceId -> failed connection checks since the last good one

sweepVars == <<regNow, lastConnected, sweep, pingFailures>>

VARIABLES
  dataUpdate,      \* the last emitDataUpdate of a polling tick: its interval and device
  listeners        \* callbacks registered on the 'telemetry' event

hookVars == <<dataUpdate, listeners>>

vars == <<regVars, rpcVars, pollVars, telVars, brokerVars, queryVars, plcVars,
          sweepVars, hookVars>>

\* ------------------------------------------------- connection registry
\* A caller that is not inside any registry call.
IdleCaller(result, client) ==
  [pc |-> "idle", op |-> "none", dev |-> 0, client |-> client,
   ret |-> "none", ctx |-> "none", ok |-> FALSE, result |-> result]

\* lastConnected of the entries after a step: gone with a deleted entry, the time
\* of the step for an entry set in it (line 317) and for the entries getClient
\* touched (line 436), kept otherwise.
lastConnectedAfter(ac, touched) ==
  [d \in Devices |->
     IF ac[d] = NoClient THEN Never
     ELSE IF ac[d] # activeConnections[d] \/ d \in touched THEN regNow
     ELSE lastConnected[d]]

\* Where the periodic check is after a step of caller p.  Its loop iterates the
\* live Map: an entry set while the loop runs is appended and will be visited.
\* The check itself is suspended in the restartConnection it awaits (lines 627,
\* 631) and goes on with the next entry when that call has returned.
sweepAfter(p, rec, ac) ==
  LET added == {d \in Devices : ac[d] # NoClient /\ ac[d] # activeConnections[d]}
      at == IF sweep.pc = "idle" THEN sweep
            ELSE [sweep EXCEPT !.todo = @ \cup added]
  IN  IF p # Sweeper THEN at
      ELSE IF rec.pc = "idle" THEN [at EXCEPT !.pc = "iterate"]
      ELSE IF sweep.pc = "restart" THEN at
      ELSE [at EXCEPT !.pc = "restart", !.dev = rec.dev, !.todo = @ \ {rec.dev}]

\* The synchronous tail of a step that refreshes lastConnected of the entries in
\* touched.
FinishTouch(p, rec, ac, cs, ds, touched) ==
  /\ caller' = [caller EXCEPT ![p] = rec]
  /\ activeConnections' = ac
  /\ clientState' = cs
  /\ deviceStatus' = ds
  /\ lastConnected' = lastConnectedAfter(ac, touched)
  /\ sweep' = sweepAfter(p, rec, ac)
  /\ UNCHANGED <<clientDev, nextClient, regNow, pingFailures>>
  /\ UNCHANGED <<rpcVars, pollVars, telVars, brokerVars, queryVars, plcVars, hookVars>>

\* The synchronous tail of a step: the caller's new position and the registry state.
Finish(p, rec, ac, cs, ds) ==
  /\ caller' = [caller EXCEPT ![p] = rec]
  /\ activeConnections' = ac
  /\ clientState' = cs
  /\ deviceStatus' = ds
  /\ lastConnected' = lastConnectedAfter(ac, {})
  /\ sweep' = sweepAfter(p, rec, ac)
  /\ UNCHANGED <<clientDev, nextClient, regNow, pingFailures>>
  /\ UNCHANGED <<rpcVars, pollVars, telVars, brokerVars, queryVars, plcVars, hookVars>>

\* initializeDevice, lines 302-310: construct a client and start connectClient.
NewModbusClient(p, rec, ac, cs, ds) ==
  /\ nextClient <= MaxClients
  /\ caller' = [caller EXCEPT ![p] = [rec EXCEPT !.pc = "connect_io", !.client = nextClient]]
  /\ activeConnections' = ac
  /\ clientState' = [cs EXCEPT ![nextClient] = "created"]
  /\ clientDev' = [clientDev EXCEPT ![nextClient] = rec.dev]
  /\ nextClient' = nextClient + 1
  /\ deviceStatus' = ds
  /\ lastConnected' = lastConnectedAfter(ac, {})
  /\ sweep' = sweepAfter(p, [rec EXCEPT !.pc = "connect_io"], ac)
  /\ UNCHANGED <<regNow, pingFailures>>
  /\ UNCHANGED <<rpcVars, pollVars, telVars, brokerVars, queryVars, plcVars, hookVars>>

\* What follows a finished closeConnection: the caller of closeConnection itself
\* gets its result; initializeDevice and restartConnection go on to connect (after
\* restartConnection's close the registry has no entry, so initializeDevice's own
\* has() test is false).
AfterClose(p, rec, closed, ac, cs, ds) ==
  IF rec.ret = "top"
    THEN Finish(p, IdleCaller(IF closed THEN "true" ELSE "false", NoClient), ac, cs, ds)
    ELSE NewModbusClient(p, rec, ac, cs, ds)

\* closeConnection up to its first suspension: an open registered client is closed
\* asynchronously; an entry whose client is not open is deleted at once.
closeConnection(p, rec, ac, cs, ds) ==
  LET c == ac[rec.dev] IN
  IF c = NoClient
    THEN AfterClose(p, rec, FALSE, ac, cs, ds)
    ELSE IF cs[c] = "open"
      THEN Finish(p, [rec EXCEPT !.pc = "close_io", !.client = c], ac, cs, ds)
      ELSE AfterClose(p, rec, TRUE, [ac EXCEPT ![rec.dev] = NoClient], cs, ds)

\* getClient that returns an open connection without touching lastConnected.
getClientCheckNoRefresh(p, rec, ac, cs, ds) ==
  LET c == ac[rec.dev] IN
  IF c = NoClient
    THEN Finish(p, IdleCaller("typeError", NoClient), ac, cs, ds)
    ELSE IF cs[c] # "open"
      THEN closeConnection(p, [rec EXCEPT !.ctx = "restart", !.ret = "restart"], ac, cs, ds)
      ELSE Finish(p, IdleCaller("client", c), ac, cs, ds)

\* getClient from line 426: the registered connection is returned when open,
\* restarted when not; a missing entry makes connection.client throw.
getClientCheck(p, rec, ac, cs, ds) ==
  LET c == ac[rec.dev] IN
  IF c = NoClient
    THEN Finish(p, IdleCaller("typeError", NoClient), ac, cs, ds)
    ELSE IF cs[c] # "open"
      THEN closeConnection(p, [rec EXCEPT !.ctx = "restart", !.ret = "restart"], ac, cs, ds)
      ELSE FinishTouch(p, IdleCaller("client", c), ac, cs, ds, {rec.dev})

\* The return of initializeDevice to whoever called it.
AfterInitialize(p, rec, ac, cs, ds) ==
  IF rec.op # "getClient"
    THEN Finish(p, IdleCaller(IF rec.ok THEN "true" ELSE "false", NoClient), ac, cs, ds)
    ELSE IF rec.ctx = "restart"
      THEN Finish(p, IF ac[rec.dev] = NoClient
                       THEN IdleCaller("typeError", NoClient)
                       ELSE IdleCaller("client", ac[rec.dev]), ac, cs, ds)
      ELSE IF ~rec.ok
        THEN Finish(p, IdleCaller("connectError", NoClient), ac, cs, ds)
        ELSE getClientCheck(p, rec, ac, cs, ds)

StartCall(p, op, d, ret) ==
  [pc |-> "start", op |-> op, dev |-> d, client |-> NoClient,
   ret |-> ret, ctx |-> "first", ok |-> FALSE, result |-> "none"]

InitializeDevice(p, d) ==
  /\ caller[p].pc = "idle"
  /\ closeConnection(p, StartCall(p, "initializeDevice", d, "init"),
                     activeConnections, clientState, deviceStatus)

RestartConnection(p, d) ==
  /\ caller[p].pc = "idle"
  /\ closeConnection(p, StartCall(p, "restartConnection", d, "restart"),
                     activeConnections, clientState, deviceStatus)

CloseConnection(p, d) ==
  /\ caller[p].pc = "idle"
  /\ closeConnection(p, StartCall(p, "closeConnection", d, "top"),
                     activeConnections, clientState, deviceStatus)

GetClient(p, d) ==
  /\ caller[p].pc = "idle"
  /\ IF activeConnections[d] = NoClient
       THEN Finish(p, [StartCall(p, "getClient", d, "init") EXCEPT !.pc = "find_io"],
                   activeConnections, clientState, deviceStatus)
       ELSE getClientCheck(p, StartCall(p, "getClient", d, "init"),
                           activeConnections, clientState, deviceStatus)

\* Device.findById resolves (getClient line 413): initializeDevice starts.
FindByIdDone(p) ==
  /\ caller[p].pc = "find_io"
  /\ closeConnection(p, caller[p], activeConnections, clientState, deviceStatus)

\* client.close() settles (closeConnection lines 359-363): on success the entry
\* registered for the device at that moment is deleted; on an error the catch
\* returns false and nothing is deleted.
ClientCloseDone(p, ok) ==
  /\ caller[p].pc = "close_io"
  /\ LET rec == caller[p] IN
     IF ok
       THEN AfterClose(p, rec, TRUE,
                       [activeConnections EXCEPT ![rec.dev] = NoClient],
                       [clientState EXCEPT ![rec.client] = "closed"], deviceStatus)
       ELSE AfterClose(p, rec, FALSE, activeConnections, clientState, deviceStatus)

\* connectClient settles (initializeDevice lines 312-329).
ConnectClientDone(p, ok) ==
  /\ caller[p].pc = "connect_io"
  /\ LET rec == caller[p] IN
     IF ok
       THEN Finish(p, [rec EXCEPT !.pc = "status_io", !.ok = TRUE],
                   [activeConnections EXCEPT ![rec.dev] = rec.client],
                   [clientState EXCEPT ![rec.client] = "open"], deviceStatus)
       ELSE Finish(p, [rec EXCEPT !.pc = "status_io", !.ok = FALSE],
                   activeConnections, clientState, deviceStatus)

\* updateDeviceStatus settles and initializeDevice returns.
UpdateDeviceStatusDone(p) ==
  /\ caller[p].pc = "status_io"
  /\ AfterInitialize(p, caller[p], activeConnections, clientState,
                     [deviceStatus EXCEPT ![caller[p].dev] =
                        IF caller[p].ok THEN "online" ELSE "offline"])

\* The transport of an open client drops: client.isOpen becomes false.
ClientDrop(c) ==
  /\ clientState[c] = "open"
  /\ clientState' = [clientState EXCEPT ![c] = "closed"]
  /\ UNCHANGED <<activeConnections, clientDev, nextClient, deviceStatus, caller>>
  /\ UNCHANGED sweepVars
  /\ UNCHANGED <<rpcVars, pollVars, telVars, brokerVars, queryVars, plcVars, hookVars>>

InitRegistry ==
  /\ activeConnections = [d \in Devices |-> NoClient]
  /\ clientState = [c \in ClientIds |-> "unused"]
  /\ clientDev = [c \in ClientIds |-> 0]
  /\ nextClient = 1
  /\ deviceStatus = [d \in Devices |-> "offline"]
  /\ caller = [p \in AllCallers |-> IdleCaller("none", NoClient)]

NextRegistry ==
  \/ \E p \in Callers, d \in Devices : InitializeDevice(p, d)
  \/ \E p \in Callers, d \in Devices : RestartConnection(p, d)
  \/ \E p \in Callers, d \in Devices : CloseConnection(p, d)
  \/ \E p \in Callers, d \in Devices : GetClient(p, d)
  \/ \E p \in Callers : FindByIdDone(p)
  \/ \E p \in Callers, ok \in BOOLEAN : ClientCloseDone(p, ok)
  \/ \E p \in Callers, ok \in BOOLEAN : ConnectClientDone(p, ok)
  \/ \E p \in Callers : UpdateDeviceStatusDone(p)
  \/ \E c \in ClientIds : ClientDrop(c)

\* ------------------------------------------------- broker gateway: RPC
NoResult == [kind |-> "none", val |-> ""]

\* A sendRpcRequest call that has not been made.
NoRequest ==
  [deviceId |-> 0, requestId |-> Never, timeoutAt |-> Never,
   timer |-> "none", subCb |-> "none", subOk |-> FALSE, handler |-> FALSE,
   pub |-> "none", responded |-> FALSE, outcome |-> "none", result |-> NoResult,
   unsubs |-> 0, settles |-> 0, subAtSettle |-> FALSE,
   respAt |-> Never, respPayload |-> ""]

\* Message payloads a device may send as an RPC response.
JsonTexts == {"{\"ok\":true}"}
RpcPayloads == JsonTexts \cup {"oops"}
\* The JSON texts devices publish as telemetry.
SingleText == "{\"type\":\"temp\",\"value\":21}"
BatchText == "{\"values\":[{\"type\":\"temp\",\"value\":21},{\"type\":\"temp\"}]}"
TelemetryTexts == {SingleText, BatchText}
IsJson(text) == text \in JsonTexts \cup TelemetryTexts

\* parsePayload: JSON.parse of the buffer's text; a parse failure is caught inside
\* and the text itself is returned, so nothing is ever thrown to the caller.
parsePayload(payload) ==
  IF IsJson(payload)
    THEN [threw |-> FALSE, value |-> [kind |-> "object", val |-> payload]]
    ELSE [threw |-> FALSE, value |-> [kind |-> "string", val |-> payload]]

\* v1/devices/{deviceId}/rpc/response/{requestId}
responseTopic(rec) == <<rec.deviceId, rec.requestId>>

Created(r) == rpc[r].outcome # "none"
Pending(r) == rpc[r].outcome = "pending"
Settled(r) == rpc[r].outcome \notin {"none", "pending"}

\* resolve / reject of the request's promise: the first call settles it.
settle(rec, outcome, result, sb) ==
  IF rec.outcome = "pending"
    THEN [rec EXCEPT !.outcome = outcome, !.result = result, !.settles = @ + 1,
                     !.subAtSettle = rec.subOk /\ responseTopic(rec) \in sb]
    ELSE [rec EXCEPT !.settles = @ + 1]

\* clearTimeout(timeoutId): no effect on a timer that has fired.
clearTimeout(rec) ==
  IF rec.timer = "armed" THEN [rec EXCEPT !.timer = "cleared"] ELSE rec

\* sendRpcRequest, lines 341-365: the request id is the clock reading; the timer is
\* armed and the subscription requested before anything else happens.
SendRpcRequest(d, timeout, subOk) ==
  /\ nextReq <= MaxReq
  /\ ~clientEnded
  /\ now + timeout <= MaxNow
  /\ LET rec == [NoRequest EXCEPT !.deviceId = d, !.requestId = now,
                                  !.timeoutAt = now + timeout, !.timer = "armed",
                                  !.subCb = "waiting", !.subOk = subOk,
                                  !.outcome = "pending"]
     IN /\ rpc' = [rpc EXCEPT ![nextReq] = rec]
        /\ subs' = IF subOk THEN subs \cup {responseTopic(rec)} ELSE subs
  /\ nextReq' = nextReq + 1
  /\ UNCHANGED <<now, inflight, clientEnded, pendingAtClose>>
  /\ UNCHANGED <<regVars, pollVars, telVars, brokerVars, queryVars, plcVars, sweepVars, hookVars>>

\* The subscribe callback, lines 365-392: on an error the timer is cleared and the
\* promise rejected; otherwise the message handler is registered and the request
\* published, whether or not the request is still pending.  A subscribe that is
\* unacknowledged when the client is ended may be called back with an error.
SubscribeCallback(r) ==
  /\ rpc[r].subCb = "waiting"
  /\ rpc' = [rpc EXCEPT ![r] =
       IF clientEnded \/ ~rpc[r].subOk
         THEN [settle(clearTimeout(rpc[r]), "subscribeError", NoResult, subs)
                 EXCEPT !.subCb = "called"]
         ELSE [rpc[r] EXCEPT !.subCb = "called", !.handler = TRUE, !.pub = "waiting"]]
  /\ UNCHANGED <<now, nextReq, subs, inflight, clientEnded, pendingAtClose>>
  /\ UNCHANGED <<regVars, pollVars, telVars, brokerVars, queryVars, plcVars, sweepVars, hookVars>>

\* The publish callback, lines 392-401.
PublishCallback(r, pubErr) ==
  /\ rpc[r].pub = "waiting"
  /\ ~clientEnded
  /\ IF pubErr
       THEN LET sb == subs \ {responseTopic(rpc[r])} IN
            /\ rpc' = [rpc EXCEPT ![r] =
                 [settle([clearTimeout(rpc[r]) EXCEPT !.unsubs = @ + 1],
                         "publishError", NoResult, sb)
                    EXCEPT !.handler = FALSE, !.pub = "failed"]]
            /\ subs' = sb
       ELSE /\ rpc' = [rpc EXCEPT ![r].pub = "acked"]
            /\ subs' = subs
  /\ UNCHANGED <<now, nextReq, inflight, clientEnded, pendingAtClose>>
  /\ UNCHANGED <<regVars, pollVars, telVars, brokerVars, queryVars, plcVars, sweepVars, hookVars>>

\* The device answers a request it received; the broker routes the answer to the
\* internal client when the client is subscribed to the response topic.
DeviceRespond(r, payload) ==
  /\ rpc[r].pub = "acked"
  /\ ~rpc[r].responded
  /\ ~clientEnded
  /\ rpc' = [rpc EXCEPT ![r].responded = TRUE]
  /\ inflight' = IF responseTopic(rpc[r]) \in subs
                   THEN inflight \cup {[topic |-> responseTopic(rpc[r]),
                                        payload |-> payload, req |-> r]}
                   ELSE inflight
  /\ UNCHANGED <<now, nextReq, subs, clientEnded, pendingAtClose>>
  /\ UNCHANGED <<regVars, pollVars, telVars, brokerVars, queryVars, plcVars, sweepVars, hookVars>>

\* messageHandler without its clearTimeout(timeoutId).
messageHandlerKeepsTimer(rec, m, sb) ==
  IF rec.handler /\ responseTopic(rec) = m.topic
    THEN settle([rec EXCEPT !.unsubs = @ + 1, !.handler = FALSE,
                            !.respAt = now, !.respPayload = m.payload],
                "resolved", parsePayload(m.payload).value, sb)
    ELSE rec

\* messageHandler, lines 372-386, for one registered handler and one message.
messageHandler(rec, m, sb) ==
  IF rec.handler /\ responseTopic(rec) = m.topic
    THEN LET r1 == [clearTimeout(rec) EXCEPT !.unsubs = @ + 1, !.handler = FALSE,
                                             !.respAt = now, !.respPayload = m.payload]
             parsed == parsePayload(m.payload)
         IN IF parsed.threw
              THEN settle(r1, "parseError", NoResult, sb)
              ELSE settle(r1, "resolved", parsed.value, sb)
    ELSE rec

\* The internal client receives a message: 'message' is emitted to every
\* registered handler.
Deliver(m) ==
  /\ m \in inflight
  /\ ~clientEnded
  /\ LET hit == \E r \in ReqIds : rpc[r].handler /\ responseTopic(rpc[r]) = m.topic
         sb == IF hit THEN subs \ {m.topic} ELSE subs
     IN /\ rpc' = [r \in ReqIds |-> messageHandler(rpc[r], m, sb)]
        /\ subs' = sb
  /\ inflight' = inflight \ {m}
  /\ UNCHANGED <<now, nextReq, clientEnded, pendingAtClose>>
  /\ UNCHANGED <<regVars, pollVars, telVars, brokerVars, queryVars, plcVars, sweepVars, hookVars>>

\* The timeout callback without its reject(...).
timeoutCallbackNoReject(rec, sb) ==
  [rec EXCEPT !.timer = "fired", !.unsubs = @ + 1]

\* The timeout callback, lines 359-362.
timeoutCallback(rec, sb) ==
  settle([rec EXCEPT !.timer = "fired", !.unsubs = @ + 1], "timeout", NoResult, sb)

TimerFire(r) ==
  /\ rpc[r].timer = "armed"
  /\ now >= rpc[r].timeoutAt
  /\ LET sb == subs \ {responseTopic(rpc[r])} IN
     /\ rpc' = [rpc EXCEPT ![r] = timeoutCallback(rpc[r], sb)]
     /\ subs' = sb
  /\ UNCHANGED <<now, nextReq, inflight, clientEnded, pendingAtClose>>
  /\ UNCHANGED <<regVars, pollVars, telVars, brokerVars, queryVars, plcVars, sweepVars, hookVars>>

\* Time passes, up to the next armed timer's expiry; a due timer runs first.
ArmedDeadlines == {rpc[r].timeoutAt : r \in {q \in ReqIds : rpc[q].timer = "armed"}}

Tick ==
  /\ now < MaxNow
  /\ \A t \in ArmedDeadlines : t > now
  /\ LET next == now + TickMs
         sooner == {t \in ArmedDeadlines : t < next}
     IN now' = IF sooner = {} THEN next
               ELSE CHOOSE t \in sooner : \A u \in sooner : t <= u
  /\ UNCHANGED <<rpc, nextReq, subs, inflight, clientEnded, pendingAtClose>>
  /\ UNCHANGED <<regVars, pollVars, telVars, brokerVars, queryVars, plcVars, sweepVars, hookVars>>

\* close() that also clears the pending requests' timers.
CloseClearsTimers ==
  /\ ~clientEnded
  /\ clientEnded' = TRUE
  /\ inflight' = {}
  /\ subs' = {}
  /\ pendingAtClose' = {r \in ReqIds : Pending(r)}
  /\ rpc' = [r \in ReqIds |-> clearTimeout(rpc[r])]
  /\ UNCHANGED <<now, nextReq>>
  /\ UNCHANGED <<regVars, pollVars, telVars, brokerVars, queryVars, plcVars, sweepVars, hookVars>>

\* close(), lines 480-516: the internal client is ended by force; its
\* subscriptions end with it and no message or acknowledgement is received on it
\* afterwards.  Timers are not touched.
Close ==
  /\ ~clientEnded
  /\ clientEnded' = TRUE
  /\ inflight' = {}
  /\ subs' = {}
  /\ pendingAtClose' = {r \in ReqIds : Pending(r)}
  /\ UNCHANGED <<now, rpc, nextReq>>
  /\ UNCHANGED <<regVars, pollVars, telVars, brokerVars, queryVars, plcVars, sweepVars, hookVars>>

InitRpc ==
  /\ now = 0
  /\ rpc = [r \in ReqIds |-> NoRequest]
  /\ nextReq = 1
  /\ subs = {}
  /\ inflight = {}
  /\ clientEnded = FALSE
  /\ pendingAtClose = {}

NextRpc ==
  \/ \E d \in RpcDevices, t \in Timeouts, ok \in BOOLEAN : SendRpcRequest(d, t, ok)
  \/ \E r \in ReqIds : SubscribeCallback(r)
  \/ \E r \in ReqIds, e \in BOOLEAN : PublishCallback(r, e)
  \/ \E r \in ReqIds, p \in RpcPayloads : DeviceRespond(r, p)
  \/ \E m \in inflight : Deliver(m)
  \/ \E r \in ReqIds : TimerFire(r)
  \/ Tick
  \/ Close

\* ------------------------------------------------- polling scheduler
\* startPolling that does not clear the device's existing interval.
StartPollingNoClear(d) ==
  /\ nextTimer <= MaxTimers
  /\ pollingTimer' = [pollingTimer EXCEPT ![d] = nextTimer]
  /\ activeTimers' = activeTimers \cup {nextTimer}
  /\ timerDevice' = [timerDevice EXCEPT ![nextTimer] = d]
  /\ nextTimer' = nextTimer + 1
  /\ pollLog' = [pollLog EXCEPT ![d] =
                   IF pollingTimer[d] # NoTimer THEN "restarted" ELSE "started"]
  /\ UNCHANGED ticksRunning
  /\ UNCHANGED <<regVars, rpcVars, telVars, brokerVars, queryVars, plcVars, sweepVars, hookVars>>

\* startPolling, lines 92-112: the body has no await, so it runs as one step.
StartPolling(d) ==
  /\ nextTimer <= MaxTimers
  /\ pollingTimer' = [pollingTimer EXCEPT ![d] = nextTimer]
  /\ activeTimers' = (activeTimers \ {pollingTimer[d]}) \cup {nextTimer}
  /\ timerDevice' = [timerDevice EXCEPT ![nextTimer] = d]
  /\ nextTimer' = nextTimer + 1
  /\ pollLog' = [pollLog EXCEPT ![d] =
                   IF pollingTimer[d] # NoTimer THEN "restarted" ELSE "started"]
  /\ UNCHANGED ticksRunning
  /\ UNCHANGED <<regVars, rpcVars, telVars, brokerVars, queryVars, plcVars, sweepVars, hookVars>>

\* stopPolling that deletes the device's entry without clearing its interval.
StopPollingNoClear(d) ==
  /\ IF pollingTimer[d] # NoTimer
       THEN /\ UNCHANGED activeTimers
            /\ pollingTimer' = [pollingTimer EXCEPT ![d] = NoTimer]
            /\ pollLog' = [pollLog EXCEPT ![d] = "stopped"]
       ELSE /\ UNCHANGED <<activeTimers, pollingTimer>>
            /\ pollLog' = [pollLog EXCEPT ![d] = "noop"]
  /\ UNCHANGED <<timerDevice, nextTimer, ticksRunning>>
  /\ UNCHANGED <<regVars, rpcVars, telVars, brokerVars, queryVars, plcVars, sweepVars, hookVars>>

\* stopPolling, lines 118-129.
StopPolling(d) ==
  /\ IF pollingTimer[d] # NoTimer
       THEN /\ activeTimers' = activeTimers \ {pollingTimer[d]}
            /\ pollingTimer' = [pollingTimer EXCEPT ![d] = NoTimer]
            /\ pollLog' = [pollLog EXCEPT ![d] = "stopped"]
       ELSE /\ UNCHANGED <<activeTimers, pollingTimer>>
            /\ pollLog' = [pollLog EXCEPT ![d] = "noop"]
  /\ UNCHANGED <<timerDevice, nextTimer, ticksRunning>>
  /\ UNCHANGED <<regVars, rpcVars, telVars, brokerVars, queryVars, plcVars, sweepVars, hookVars>>

\* An interval elapses: its callback starts extractAndSaveData (lines 102-104).
IntervalFire(h) ==
  /\ h \in activeTimers
  /\ ticksRunning[h] < MaxInFlight
  /\ ticksRunning' = [ticksRunning EXCEPT ![h] = @ + 1]
  /\ UNCHANGED <<pollingTimer, activeTimers, timerDevice, nextTimer, pollLog>>
  /\ UNCHANGED <<regVars, rpcVars, telVars, brokerVars, queryVars, plcVars, sweepVars, hookVars>>

NoUpdate == [timer |-> NoTimer, device |-> 0]

\* A running extractAndSaveData returns or throws (lines 104-108).  When it returns
\* it has saved the data points it read and called emitDataUpdate (lines 61-80);
\* it throws when fetchLatestData or a save is rejected, before the emit.
ExtractAndSaveDone(h, ok) ==
  /\ ticksRunning[h] > 0
  /\ ticksRunning' = [ticksRunning EXCEPT ![h] = @ - 1]
  /\ dataUpdate' = IF ok THEN [timer |-> h, device |-> timerDevice[h]] ELSE dataUpdate
  /\ UNCHANGED listeners
  /\ UNCHANGED <<pollingTimer, activeTimers, timerDevice, nextTimer, pollLog>>
  /\ UNCHANGED <<regVars, rpcVars, telVars, brokerVars, queryVars, plcVars, sweepVars>>

InitPoll ==
  /\ pollingTimer = [d \in Devices |-> NoTimer]
  /\ activeTimers = {}
  /\ timerDevice = [h \in TimerIds |-> 0]
  /\ nextTimer = 1
  /\ ticksRunning = [h \in TimerIds |-> 0]
  /\ pollLog = [d \in Devices |-> "none"]

NextPoll ==
  \/ \E d \in Devices : StartPolling(d)
  \/ \E d \in Devices : StopPolling(d)
  \/ \E h \in TimerIds : IntervalFire(h)
  \/ \E h \in TimerIds, ok \in BOOLEAN : ExtractAndSaveDone(h, ok)

\* ------------------------------------------------- telemetry ingestion
\* The Device collection: d1 is active, d2 is inactive, every other id is unknown.
DeviceDirectory ==
  [d \in {"d1", "d2"} |->
     [accessToken |-> IF d = "d1" THEN "tok1" ELSE "tok2", active |-> d = "d1"]]
TelemetryDeviceIds == {"d1", "d2", "d3"}
NoDevice == [accessToken |-> "", active |-> FALSE]

\* Device.findById(deviceId): the device document, or null.
findById(deviceId) ==
  IF deviceId \in DOMAIN DeviceDirectory
    THEN [found |-> TRUE, device |-> DeviceDirectory[deviceId]]
    ELSE [found |-> FALSE, device |-> NoDevice]

\* A telemetry item: its type ("absent" when the key is missing) and its value
\* ("absent" when the key is missing, "null" when the key holds null).
ValidItem == [type |-> "temp", value |-> "21"]
NoValueItem == [type |-> "temp", value |-> "absent"]
NoTypeItem == [type |-> "absent", value |-> "21"]
NullValueItem == [type |-> "temp", value |-> "null"]
EmptyItem == [type |-> "absent", value |-> "absent"]
TelemetryItems == {ValidItem, NoValueItem, NoTypeItem, NullValueItem}

RECURSIVE SeqsUpTo(_, _)
SeqsUpTo(S, n) ==
  IF n = 0 THEN {<<>>}
  ELSE LET shorter == SeqsUpTo(S, n - 1)
       IN shorter \cup {Append(q, x) : q \in {t \in shorter : Len(t) = n - 1}, x \in S}

\* The data argument of saveTelemetry: a non-object, an array, an object with a
\* values array, or an object that is itself one item.
StringData == [kind |-> "string", values |-> <<>>]
ArrayData == [kind |-> "array", values |-> <<>>]
SingleData(item) == [kind |-> "single", values |-> <<item>>]
BatchData(values) == [kind |-> "batch", values |-> values]
TelemetryData ==
  {StringData, ArrayData}
    \cup {SingleData(i) : i \in TelemetryItems}
    \cup {BatchData(v) : v \in SeqsUpTo(TelemetryItems, MaxBatch)}

\* A check that lets every item through to save().
itemOkUnchecked(item) == TRUE

\* !item.type || !('value' in item), lines 40 and 61, negated.
itemOk(item) == item.type # "absent" /\ item.value # "absent"

\* A schema without required fields.
schemaValidNothingRequired(item) == TRUE

\* telemetrySchema: type and value are required, and a required value is not null.
schemaValid(item) == item.type # "absent" /\ item.value \notin {"absent", "null"}

ItemSlots == 0..MaxBatch
NoCall ==
  [pc |-> "idle", deviceId |-> "", data |-> StringData, device |-> "none", idx |-> 0,
   attempted |-> {}, savedIdx |-> {},
   emitted |-> [s \in ItemSlots |-> 0], handed |-> [s \in ItemSlots |-> 0],
   handoffFailed |-> FALSE, dbFailed |-> FALSE, outcome |-> "none", error |-> "none"]

\* throw inside saveTelemetry: logged and rethrown by the catch, lines 80-83.
throwError(call, error) ==
  [call EXCEPT !.pc = "done", !.outcome = "error", !.error = error]

\* A loop that skips an item failing the check and goes on with the next one.
RECURSIVE nextItemSkipInvalid(_, _)
nextItemSkipInvalid(call, i) ==
  IF call.data.kind = "single"
    THEN IF itemOk(call.data.values[1])
           THEN [call EXCEPT !.pc = "save_io", !.idx = 0, !.attempted = @ \cup {0}]
           ELSE throwError(call, "invalid")
    ELSE IF i > Len(call.data.values)
           THEN [call EXCEPT !.pc = "done", !.outcome = "ok"]
           ELSE IF itemOk(call.data.values[i])
                  THEN [call EXCEPT !.pc = "save_io", !.idx = i,
                                    !.attempted = @ \cup {i}]
                  ELSE nextItemSkipInvalid(call, i + 1)

\* The loop of lines 39-57 arriving at item i (or the single item, slot 0): the
\* item is checked and, if it passes, handed to save().
nextItem(call, i) ==
  IF call.data.kind = "single"
    THEN IF itemOk(call.data.values[1])
           THEN [call EXCEPT !.pc = "save_io", !.idx = 0, !.attempted = @ \cup {0}]
           ELSE throwError(call, "invalid")
    ELSE IF i > Len(call.data.values)
           THEN [call EXCEPT !.pc = "done", !.outcome = "ok"]
           ELSE IF itemOk(call.data.values[i])
                  THEN [call EXCEPT !.pc = "save_io", !.idx = i,
                                    !.attempted = @ \cup {i}]
                  ELSE throwError(call, "itemInvalid")

\* A device check that also rejects an inactive device.
deviceCheckRejectInactive(found) ==
  IF ~found.found \/ ~found.device.active THEN "notFound" ELSE "active"

\* The device check of lines 21-29: a missing device is an error, an inactive one
\* a warning.
deviceCheck(found) ==
  IF ~found.found THEN "notFound"
  ELSE IF ~found.device.active THEN "inactive" ELSE "active"

\* Callbacks a subscriber can register: one that returns, one that throws.
QuietCallback == "returns"
ThrowingCallback == "throws"
Callbacks == {QuietCallback, ThrowingCallback}

\* emitTelemetryEvent that emits the 'telemetry' event twice.
emitTelemetryEventTwice(call, slot, engine, handoffFails) ==
  [call EXCEPT !.emitted[slot] = @ + 2,
               !.handed[slot] = IF engine THEN @ + 1 ELSE @,
               !.handoffFailed = @ \/ (engine /\ handoffFails)]

\* emitTelemetryEvent that lets a rejected hand-off reach saveTelemetry.
emitTelemetryEventPropagates(call, slot, engine, handoffFails) ==
  IF engine /\ handoffFails
    THEN [throwError(call, "rules") EXCEPT !.emitted[slot] = @ + 1,
                                           !.handed[slot] = @ + 1,
                                           !.handoffFailed = TRUE]
    ELSE [call EXCEPT !.emitted[slot] = @ + 1,
                      !.handed[slot] = IF engine THEN @ + 1 ELSE @]

\* emitTelemetryEvent, lines 92-100: one 'telemetry' event, and one processTelemetry
\* hand-off if a rules engine is set; a rejected hand-off is logged by the catch.
\* EventEmitter.emit calls the listeners synchronously: what a listener throws
\* leaves emit (line 93) and emitTelemetryEvent, before the hand-off.
emitTelemetryEvent(call, slot, engine, handoffFails) ==
  IF ThrowingCallback \in listeners
    THEN [throwError(call, "listener") EXCEPT !.emitted[slot] = @ + 1]
    ELSE [call EXCEPT !.emitted[slot] = @ + 1,
                      !.handed[slot] = IF engine THEN @ + 1 ELSE @,
                      !.handoffFailed = @ \/ (engine /\ handoffFails)]

\* saveTelemetry up to its first await, line 21.
startSave(deviceId, data) ==
  [NoCall EXCEPT !.pc = "find_io", !.deviceId = deviceId, !.data = data]

\* new TelemetryService(rulesEngineService), lines 7-10: the service has a new
\* EventEmitter, without listeners.
NewTelemetryService(engine) ==
  /\ tcall.pc = "idle"
  /\ rulesEngine' = engine
  /\ tcall' = NoCall
  /\ listeners' = {}
  /\ UNCHANGED <<stored, dataUpdate>>
  /\ UNCHANGED <<regVars, rpcVars, pollVars, brokerVars, queryVars, plcVars, sweepVars>>

\* saveTelemetry(deviceId, data) called by a route handler.
SaveTelemetry(deviceId, data) ==
  /\ tcall.pc = "idle"
  /\ tcall' = startSave(deviceId, data)
  /\ UNCHANGED <<stored, rulesEngine>>
  /\ UNCHANGED <<regVars, rpcVars, pollVars, brokerVars, queryVars, plcVars, sweepVars, hookVars>>

\* Device.findById returns, lines 21-38 and 59-63: the device and the shape of the
\* data are checked, then the first item is reached.
SaveTelemetryFindDone ==
  /\ tcall.pc = "find_io"
  /\ LET check == deviceCheck(findById(tcall.deviceId))
         call == [tcall EXCEPT !.device = check]
     IN tcall' =
          IF check = "notFound" THEN throwError(call, "notFound")
          ELSE IF call.data.kind \in {"string", "array"}
                 THEN throwError(call, "notObject")
                 ELSE nextItem(call, 1)
  /\ UNCHANGED <<stored, rulesEngine>>
  /\ UNCHANGED <<regVars, rpcVars, pollVars, brokerVars, queryVars, plcVars, sweepVars, hookVars>>

\* telemetry.save() returns, lines 52-57 and 73-78: on success the reading is in the
\* collection, the event is emitted and the loop goes on; a rejected save (schema
\* validation, or the database) is thrown.
SaveTelemetrySaveDone(dbOk, handoffFails) ==
  /\ tcall.pc = "save_io"
  /\ LET slot == tcall.idx
         item == tcall.data.values[IF slot = 0 THEN 1 ELSE slot]
     IN IF dbOk /\ schemaValid(item)
          THEN /\ stored' = stored \cup
                     {[deviceId |-> tcall.deviceId, type |-> item.type,
                       value |-> item.value]}
               /\ LET saved == [tcall EXCEPT !.savedIdx = @ \cup {slot}]
                      emitted == emitTelemetryEvent(saved, slot, rulesEngine,
                                                    handoffFails)
                  IN tcall' =
                       IF emitted.pc = "done" THEN emitted
                       ELSE IF slot = 0
                              THEN [emitted EXCEPT !.pc = "done", !.outcome = "ok"]
                              ELSE nextItem(emitted, slot + 1)
          ELSE /\ stored' = stored
               /\ tcall' = [throwError(tcall, "saveFailed")
                              EXCEPT !.dbFailed = ~dbOk]
  /\ UNCHANGED rulesEngine
  /\ UNCHANGED <<regVars, rpcVars, pollVars, brokerVars, queryVars, plcVars, sweepVars, hookVars>>

\* The promise saveTelemetry returned settles (lines 58, 78, 82) and its caller
\* goes on.
SaveTelemetryReturn ==
  /\ tcall.pc = "done"
  /\ tcall' = NoCall
  /\ UNCHANGED <<stored, rulesEngine>>
  /\ UNCHANGED <<regVars, rpcVars, pollVars, brokerVars, queryVars, plcVars, sweepVars, hookVars>>

\* subscribeToUpdates(callback), lines 159-160.
SubscribeToUpdates(callback) ==
  /\ listeners' = listeners \cup {callback}
  /\ UNCHANGED dataUpdate
  /\ UNCHANGED <<regVars, rpcVars, pollVars, telVars, brokerVars, queryVars, plcVars, sweepVars>>

\* The function subscribeToUpdates returned is called, lines 163-165.
Unsubscribe(callback) ==
  /\ callback \in listeners
  /\ listeners' = listeners \ {callback}
  /\ UNCHANGED dataUpdate
  /\ UNCHANGED <<regVars, rpcVars, pollVars, telVars, brokerVars, queryVars, plcVars, sweepVars>>

InitTelemetry ==
  /\ tcall = NoCall
  /\ stored = {}
  /\ rulesEngine = TRUE

InitHooks ==
  /\ dataUpdate = NoUpdate
  /\ listeners = {}

NextTelemetry ==
  \/ \E e \in BOOLEAN : NewTelemetryService(e)
  \/ /\ tcall.pc = "idle"
     /\ \E d \in TelemetryDeviceIds, data \in TelemetryData : SaveTelemetry(d, data)
  \/ SaveTelemetryFindDone
  \/ \E ok \in BOOLEAN, f \in BOOLEAN : SaveTelemetrySaveDone(ok, f)
  \/ SaveTelemetryReturn

NextSubscribe ==
  \/ NextTelemetry
  \/ \E callback \in Callbacks : SubscribeToUpdates(callback)
  \/ \E callback \in Callbacks : Unsubscribe(callback)

\* ------------------------------------------------- broker gateway: inbound
\* Topics and topic patterns are sequences of the pieces they are written with:
\* "/" , "+" and the words between them.
telemetryTopic == <<"v1", "/", "devices", "/", "+", "/", "telemetry">>
attributesTopic == <<"v1", "/", "devices", "/", "+", "/", "attributes">>
rpcRequestTopic ==
  <<"v1", "/", "devices", "/", "+", "/", "rpc", "/", "request", "/", "+">>

\* The topics devices publish on: v1/devices/{deviceId}/..., the same written
\* with an empty device id (alone and after a prefix whose third level is a
\* device id, the publisher's own or another device's), and topics outside the
\* three families.
DeviceTelemetryTopic(d) == <<"v1", "/", "devices", "/", d, "/", "telemetry">>
DeviceAttributesTopic(d) == <<"v1", "/", "devices", "/", d, "/", "attributes">>
DeviceRpcRequestTopic(d, r) ==
  <<"v1", "/", "devices", "/", d, "/", "rpc", "/", "request", "/", r>>
\* publishSystemMessage, line 443: `internal/system/${subTopic}`.
SystemTopic(subTopic) == <<"internal", "/", "system", "/">> \o subTopic
PublishTopics ==
  { DeviceTelemetryTopic("d1"), DeviceAttributesTopic("d1"),
    DeviceRpcRequestTopic("d1", "r1"),
    <<"v1", "/", "devices", "/", "/", "telemetry">>,
    <<"v1", "/", "devices", "/", "/", "attributes">>,
    <<"v1", "/", "devices", "/", "/", "rpc", "/", "request", "/", "r1">>,
    <<"x", "/", "y", "/", "d1", "/", "v1", "/", "devices", "/", "/", "telemetry">>,
    <<"x", "/", "y", "/", "d2", "/", "v1", "/", "devices", "/", "/", "telemetry">>,
    <<"v1", "/", "devices", "/", "d1", "/", "status">>,
    SystemTopic(<<"device", "/", "attributes">>) }

\* new RegExp(pattern), which is what String.prototype.match does with a string
\* argument: "+" is a quantifier on the piece before it, not a piece of its own.
RECURSIVE RegExp(_)
RegExp(pattern) ==
  IF pattern = <<>> THEN <<>>
  ELSE IF Len(pattern) >= 2 /\ pattern[2] = "+"
         THEN <<[atom |-> pattern[1], plus |-> TRUE]>>
                \o RegExp(SubSeq(pattern, 3, Len(pattern)))
         ELSE <<[atom |-> pattern[1], plus |-> FALSE]>> \o RegExp(Tail(pattern))

\* The expression re, from its k-th element on, matches topic from position i on.
RECURSIVE matchFrom(_, _, _, _)
matchFrom(re, k, topic, i) ==
  IF k > Len(re) THEN TRUE
  ELSE IF i > Len(topic) \/ topic[i] # re[k].atom THEN FALSE
  ELSE IF re[k].plus
         THEN matchFrom(re, k, topic, i + 1) \/ matchFrom(re, k + 1, topic, i + 1)
         ELSE matchFrom(re, k + 1, topic, i + 1)

\* topic.match(pattern): truthy when the expression matches anywhere in the topic.
match(topic, pattern) ==
  \E i \in 1..Len(topic) : matchFrom(RegExp(pattern), 1, topic, i)

\* An MQTT topic filter match, "+" standing for one level.
RECURSIVE matchFilterFrom(_, _)
matchFilterFrom(topic, pattern) ==
  IF pattern = <<>> \/ topic = <<>> THEN pattern = <<>> /\ topic = <<>>
  ELSE /\ \/ pattern[1] = "+" /\ topic[1] # "/"
          \/ pattern[1] = topic[1]
       /\ matchFilterFrom(Tail(topic), Tail(pattern))
matchFilter(topic, pattern) == matchFilterFrom(topic, pattern)

\* topic.split('/'): the words between the slashes, "" where there is none.
RECURSIVE splitFrom(_, _, _)
splitFrom(topic, i, word) ==
  IF i > Len(topic) THEN <<word>>
  ELSE IF topic[i] = "/" THEN <<word>> \o splitFrom(topic, i + 1, "")
  ELSE splitFrom(topic, i + 1, topic[i])
split(topic) == splitFrom(topic, 1, "")

\* topicParts[n], zero-based, undefined past the end.
topicPart(topic, n) ==
  IF n + 1 <= Len(split(topic)) THEN split(topic)[n + 1] ELSE "undefined"

\* config.internalClient
InternalUsername == "internal"
InternalPassword == "secret"

ClientIdValues == {"", "d1", "d2"}
UsernameValues == {InternalUsername, "device"}
PasswordValues == {"undefined", InternalPassword, "tok1", "tok2", ""}

NoMqttRecord ==
  [id |-> "", username |-> "", password |-> "undefined", accepted |-> "none",
   error |-> "none", isInternal |-> FALSE, deviceInfo |-> "none", callbacks |-> 0]

\* authenticateDevice without the check that the device is active.
authenticateDeviceAnyState(deviceId, accessToken) ==
  LET found == findById(deviceId)
  IN IF ~found.found \/ found.device.accessToken # accessToken
       THEN [ok |-> FALSE, error |-> "Invalid device credentials"]
       ELSE [ok |-> TRUE, error |-> "none"]

\* DeviceService.authenticateDevice: the device with this id and token, active.
authenticateDevice(deviceId, accessToken) ==
  LET found == findById(deviceId)
  IN IF ~found.found \/ found.device.accessToken # accessToken
       THEN [ok |-> FALSE, error |-> "Invalid device credentials"]
       ELSE IF ~found.device.active
              THEN [ok |-> FALSE, error |-> "Device is inactive"]
              ELSE [ok |-> TRUE, error |-> "none"]

\* authenticate, lines 82-125, for a connecting client.  password.toString() on a
\* missing password throws and the outer catch refuses the client.
authenticate(id, username, password) ==
  LET rec == [NoMqttRecord EXCEPT !.id = id, !.username = username,
                                  !.password = password, !.callbacks = 1]
      refuse(error) == [rec EXCEPT !.accepted = "false", !.error = error]
  IN IF username = InternalUsername /\ password = "undefined"
       THEN refuse("TypeError")
     ELSE IF username = InternalUsername /\ password = InternalPassword
       THEN [rec EXCEPT !.accepted = "true", !.isInternal = TRUE]
     ELSE IF id = "" THEN refuse("Device ID not provided")
     ELSE IF password = "undefined" THEN refuse("Access token not provided")
     ELSE LET res == authenticateDevice(id, password)
          IN IF res.ok
               THEN [rec EXCEPT !.accepted = "true", !.deviceInfo = id]
               ELSE refuse(res.error)

Authenticate(c, id, username, password) ==
  /\ mclient' = [mclient EXCEPT ![c] = authenticate(id, username, password)]
  /\ UNCHANGED <<lastPublish, saveLog, sysLog>>
  /\ UNCHANGED <<regVars, rpcVars, pollVars, telVars, queryVars, plcVars, sweepVars, hookVars>>

\* The text payloads devices publish and what JSON.parse makes of them.
PublishPayloads == TelemetryTexts \cup {"oops"}
JsonParse(text) ==
  IF text = SingleText THEN SingleData(ValidItem)
  ELSE IF text = BatchText THEN BatchData(<<ValidItem, NoValueItem>>)
  ELSE SingleData(EmptyItem)

\* The value parsePayload returns, as saveTelemetry receives it.
dataOf(value) == IF value.kind = "string" THEN StringData ELSE JsonParse(value.val)

\* A handler that does not look at client.deviceInfo.
hasDeviceInfoUnchecked(publisher) == TRUE

\* client.deviceInfo is set; reading it on a missing client throws a TypeError that
\* the handler's catch logs.
hasDeviceInfo(publisher) ==
  publisher # NoMqttClient /\ mclient[publisher].deviceInfo # "none"

\* The if / else-if chain of handlePublish, lines 200-212, for each topic.
topicRoute ==
  [t \in PublishTopics |->
     IF match(t, telemetryTopic) THEN "telemetry"
     ELSE IF match(t, attributesTopic) THEN "attributes"
     ELSE IF match(t, rpcRequestTopic) THEN "rpcRequest"
     ELSE "ignored"]

\* const deviceId = topicParts[2], for each topic.
topicDeviceId == [t \in PublishTopics |-> topicPart(t, 2)]

\* A handlePublish that dispatches on the topic whoever the client is.
routeOfAnyClient(internal, topic) == topicRoute[topic]

\* handlePublish lines 193-212: a packet of the internal client is dropped at
\* once, any other is dispatched on its topic.
routeOf(internal, topic) == IF internal THEN "internal" ELSE topicRoute[topic]

NoPublish ==
  [topic |-> <<>>, publisher |-> NoMqttClient, authed |-> FALSE, route |-> "none",
   deviceId |-> "", processed |-> FALSE, deviceInfo |-> "none"]

\* handlePublish, lines 192-217, with the handler it awaits: processTelemetryData
\* (243-263), processAttributeData (271-296) or processRpcRequest (304-329).
HandlePublish(publisher, topic, payload) ==
  /\ publisher # NoMqttClient => mclient[publisher].accepted = "true"
  /\ tcall.pc = "idle"
  /\ LET internal == publisher # NoMqttClient /\ mclient[publisher].isInternal
         authed == publisher # NoMqttClient /\ mclient[publisher].deviceInfo # "none"
         value == parsePayload(payload).value
         route == routeOf(internal, topic)
         deviceId == topicDeviceId[topic]
         pass == route \in {"telemetry", "attributes", "rpcRequest"}
                   /\ hasDeviceInfo(publisher)
         entry == [topic |-> topic, publisher |-> publisher, authed |-> authed,
                   route |-> route, deviceId |-> deviceId, processed |-> pass,
                   deviceInfo |-> IF publisher = NoMqttClient THEN "none"
                                  ELSE mclient[publisher].deviceInfo]
     IN /\ lastPublish' = entry
        /\ IF pass /\ route = "telemetry"
             THEN /\ tcall' = startSave(deviceId, dataOf(value))
                  /\ saveLog' = saveLog \cup {[authed |-> authed]}
                  /\ UNCHANGED sysLog
             ELSE /\ sysLog' = IF pass
                                 THEN sysLog \cup {[kind |-> route, authed |-> authed]}
                                 ELSE sysLog
                  /\ UNCHANGED <<tcall, saveLog>>
  /\ UNCHANGED <<mclient, stored, rulesEngine>>
  /\ UNCHANGED <<regVars, rpcVars, pollVars, queryVars, plcVars, sweepVars, hookVars>>

InitBroker ==
  /\ mclient = [c \in MqttClients |-> NoMqttRecord]
  /\ lastPublish = NoPublish
  /\ saveLog = {}
  /\ sysLog = {}

NextBroker ==
  \/ \E c \in MqttClients, id \in ClientIdValues, u \in UsernameValues,
        pw \in PasswordValues : Authenticate(c, id, u, pw)
  \/ /\ tcall.pc = "idle"
     /\ \E p \in MqttClients \cup {NoMqttClient}, t \in PublishTopics,
           pl \in PublishPayloads : HandlePublish(p, t, pl)
  \/ SaveTelemetryFindDone
  \/ \E ok \in BOOLEAN, f \in BOOLEAN : SaveTelemetrySaveDone(ok, f)
  \/ SaveTelemetryReturn

\* --------------------------------------------------- telemetry queries
\* A Date, by its UTC calendar components.
Date(y, m, d, h, mi) == [year |-> y, month |-> m, day |-> d, hour |-> h, minute |-> mi]

IsLeap(y) == (y % 4 = 0 /\ y % 100 # 0) \/ y % 400 = 0

DaysInMonth(y, m) ==
  IF m = 2 THEN (IF IsLeap(y) THEN 29 ELSE 28)
  ELSE IF m \in {4, 6, 9, 11} THEN 30 ELSE 31

RECURSIVE DaysBeforeMonth(_, _)
DaysBeforeMonth(y, m) ==
  IF m <= 1 THEN 0 ELSE DaysBeforeMonth(y, m - 1) + DaysInMonth(y, m - 1)

\* Days from 2023-01-01 to the first day of year y.
RECURSIVE DaysBeforeYear(_)
DaysBeforeYear(y) ==
  IF y <= 2023 THEN 0
  ELSE DaysBeforeYear(y - 1) + (IF IsLeap(y - 1) THEN 366 ELSE 365)

\* $dayOfYear: 1 on January 1st.
dayOfYear(t) == DaysBeforeMonth(t.year, t.month) + t.day

dayNumber(t) == DaysBeforeYear(t.year) + dayOfYear(t) - 1

\* 0 on Sundays: 2023-01-01 was a Sunday.
dayOfWeek(t) == dayNumber(t) % 7

\* $week: weeks begin on Sundays, week 1 begins with the first Sunday of the
\* year, the days before it are in week 0.
week(t) == (dayOfYear(t) - 1 + 7 - dayOfWeek(t)) \div 7

\* Date.getTime(), in minutes since 2023-01-01T00:00Z: the order of Dates.
getTime(t) == (dayNumber(t) * 24 + t.hour) * 60 + t.minute

\* No query is being answered.
NoQuery == [op |-> "none"]

\* The value $sort compares: a Date field by its instant (timestamp), a numeric
\* field (ts) as it is.
sortKey(doc, field) ==
  IF field = "timestamp" THEN getTime(doc.timestamp) ELSE doc[field]

\* $sort on one key (dir 1 ascending, -1 descending): the order of documents
\* with equal keys is not determined, so every sorted order is an outcome.
sort(docs, field, dir) ==
  {[i \in 1..Len(docs) |-> docs[p[i]]] :
     p \in {q \in Permutations(1..Len(docs)) :
              \A i \in 1..(Len(docs) - 1) :
                 dir * sortKey(docs[q[i]], field) <= dir * sortKey(docs[q[i + 1]], field)}}

\* The first document of a sorted sequence that belongs to a group ($first).
first(docs, group) ==
  docs[CHOOSE i \in 1..Len(docs) :
         /\ docs[i] \in group
         /\ \A j \in 1..(i - 1) : docs[j] \notin group]

\* getLatestByDevice, $match: the device's documents, of the types asked for when
\* a non-empty list of types is given.
latestMatch(docs, deviceId, types) ==
  SelectSeq(docs, LAMBDA doc :
    doc.deviceId = deviceId /\ (types # {} => doc.type \in types))

\* $group by (deviceId, type) taking $first of timestamp, value and metadata, then
\* $project: one row per type.
latestGroup(sorted) ==
  {LET top == first(sorted, {sorted[i] : i \in {j \in 1..Len(sorted) : sorted[j].type = ty}})
   IN  [type |-> ty, timestamp |-> top.timestamp, value |-> top.value,
        metadata |-> top.metadata] :
     ty \in {sorted[i].type : i \in 1..Len(sorted)}}

getLatestByDeviceAscending(docs, deviceId, types) ==
  {latestGroup(sorted) : sorted \in sort(latestMatch(docs, deviceId, types), "timestamp", 1)}

\* Telemetry.getLatestByDevice: the answers the pipeline can give.
getLatestByDevice(docs, deviceId, types) ==
  {latestGroup(sorted) : sorted \in sort(latestMatch(docs, deviceId, types), "timestamp", -1)}

\* telemetry.save() resolved (saveTelemetry lines 44-52, 65-73): the document is in
\* the collection.
TelemetrySaved(doc) ==
  /\ lastQuery = NoQuery
  /\ Len(telemetryDocs) < MaxDocs
  /\ telemetryDocs' = Append(telemetryDocs, doc)
  /\ UNCHANGED lastQuery
  /\ UNCHANGED <<regVars, rpcVars, pollVars, telVars, brokerVars, plcVars, sweepVars, hookVars>>

\* getLatestTelemetry: the answer of getLatestByDevice, or its error rethrown.
GetLatestTelemetry(deviceId, types, dbOk) ==
  /\ lastQuery = NoQuery
  /\ \E rows \in getLatestByDevice(telemetryDocs, deviceId, types) :
       lastQuery' = [op |-> "getLatest", deviceId |-> deviceId, types |-> types,
                     outcome |-> IF dbOk THEN "resolved" ELSE "rejected",
                     rows |-> IF dbOk THEN rows ELSE {}]
  /\ UNCHANGED telemetryDocs
  /\ UNCHANGED <<regVars, rpcVars, pollVars, telVars, brokerVars, plcVars, sweepVars, hookVars>>

\* The caller has taken the answer; the next request can be served.
QueryReturn ==
  /\ lastQuery # NoQuery
  /\ lastQuery' = NoQuery
  /\ UNCHANGED telemetryDocs
  /\ UNCHANGED <<regVars, rpcVars, pollVars, telVars, brokerVars, plcVars, sweepVars, hookVars>>

\* The readings the latest-value queries are checked on: two devices, two types,
\* two instants, two (value, metadata) pairs.
LatestDates == {Date(2024, 1, 1, 1, 30), Date(2024, 1, 7, 10, 0)}
LatestDocs ==
  {[deviceId |-> d, type |-> ty, timestamp |-> t, value |-> v.value, metadata |-> v.metadata] :
     d \in {"d1", "d2"}, ty \in {"temp", "hum"}, t \in LatestDates,
     v \in {[value |-> 1, metadata |-> "a"], [value |-> 2, metadata |-> "b"]}}
TypeLists == {{}, {"temp"}, {"temp", "hum"}}

InitQuery ==
  /\ telemetryDocs = <<>>
  /\ lastQuery = NoQuery

NextLatest ==
  \/ /\ lastQuery = NoQuery /\ Len(telemetryDocs) < MaxDocs
     /\ \E doc \in LatestDocs : TelemetrySaved(doc)
  \/ /\ lastQuery = NoQuery
     /\ \E d \in {"d1", "d2"}, types \in TypeLists, dbOk \in BOOLEAN :
          GetLatestTelemetry(d, types, dbOk)
  \/ QueryReturn

\* A stored value (Mixed): a number, a string that reads as a number, or a
\* string that does not.
NumberValue(n) == [kind |-> "number", n |-> n]
NumericString(n) == [kind |-> "numericString", n |-> n]
TextValue == [kind |-> "text", n |-> 0]

\* $toDouble: a number or a numeric string converts; any other string makes the
\* conversion, and with it the whole aggregation, fail.
convertible(v) == v.kind \in {"number", "numericString"}
toDouble(v) == v.n

\* A field a group id does not have (null sorts before every number).
Missing == -1

\* startTime / endTime not given.
NoTime == Date(0, 0, 0, 0, 0)

\* aggregateData lines 207-244: the group id for a time window.
timeGroup(timeWindow, t) ==
  CASE timeWindow = "day" ->
         [year |-> t.year, month |-> t.month, day |-> t.day, hour |-> Missing, week |-> Missing]
    [] timeWindow = "week" ->
         [year |-> t.year, month |-> Missing, day |-> Missing, hour |-> Missing, week |-> week(t)]
    [] timeWindow = "month" ->
         [year |-> t.year, month |-> t.month, day |-> Missing, hour |-> Missing, week |-> Missing]
    [] OTHER ->
         [year |-> t.year, month |-> t.month, day |-> t.day, hour |-> t.hour, week |-> Missing]

\* aggregateData lines 246-252: the documents of the device and type in the range,
\* both ends included.
aggregateMatch(docs, deviceId, type, startTime, endTime) ==
  SelectSeq(docs, LAMBDA doc :
    /\ doc.deviceId = deviceId
    /\ doc.type = type
    /\ (startTime # NoTime => getTime(doc.timestamp) >= getTime(startTime))
    /\ (endTime # NoTime => getTime(doc.timestamp) <= getTime(endTime)))

RECURSIVE SumSeq(_)
SumSeq(ns) == IF ns = <<>> THEN 0 ELSE Head(ns) + SumSeq(Tail(ns))

MinSeq(ns) == CHOOSE x \in {ns[i] : i \in 1..Len(ns)} : \A i \in 1..Len(ns) : x <= ns[i]
MaxSeq(ns) == CHOOSE x \in {ns[i] : i \in 1..Len(ns)} : \A i \in 1..Len(ns) : x >= ns[i]

\* A result value as an exact fraction n/d.
Fraction(n, d) == [n |-> n, d |-> d]

aggregationOpAlwaysAvg(aggregation, ns) == Fraction(SumSeq(ns), Len(ns))

\* aggregateData lines 254-271: the accumulator applied to a group's values; any
\* name other than min, max and sum gives the average.
aggregationOp(aggregation, ns) ==
  CASE aggregation = "min" -> Fraction(MinSeq(ns), 1)
    [] aggregation = "max" -> Fraction(MaxSeq(ns), 1)
    [] aggregation = "sum" -> Fraction(SumSeq(ns), 1)
    [] OTHER -> Fraction(SumSeq(ns), Len(ns))

\* $sort: { '_id.year': 1, '_id.month': 1, '_id.day': 1, '_id.hour': 1, '_id.week': 1 }
idLess(a, b) ==
  \/ a.year < b.year
  \/ a.year = b.year /\ a.month < b.month
  \/ a.year = b.year /\ a.month = b.month /\ a.day < b.day
  \/ a.year = b.year /\ a.month = b.month /\ a.day = b.day /\ a.hour < b.hour
  \/ a.year = b.year /\ a.month = b.month /\ a.day = b.day /\ a.hour = b.hour
       /\ a.week < b.week

sortIds(ids) ==
  CHOOSE s \in [1..Cardinality(ids) -> ids] :
    \A i, j \in 1..Cardinality(ids) : i < j => idLess(s[i], s[j])

\* $dateFromParts with $ifNull defaults month 1, day 1, hour 0.
dateFromParts(id) ==
  Date(id.year,
       IF id.month = Missing THEN 1 ELSE id.month,
       IF id.day = Missing THEN 1 ELSE id.day,
       IF id.hour = Missing THEN 0 ELSE id.hour,
       0)

\* TelemetryService.aggregateData: $match, $group by time group, $sort, $project.
aggregateData(docs, deviceId, type, aggregation, timeWindow, startTime, endTime) ==
  LET matched == aggregateMatch(docs, deviceId, type, startTime, endTime)
      ids     == {timeGroup(timeWindow, matched[i].timestamp) : i \in 1..Len(matched)}
      sorted  == sortIds(ids)
      group(id) == SelectSeq(matched, LAMBDA doc : timeGroup(timeWindow, doc.timestamp) = id)
      values(id) == [i \in 1..Len(group(id)) |-> toDouble(group(id)[i].value)]
  IN  IF \E i \in 1..Len(matched) : ~convertible(matched[i].value)
        THEN [outcome |-> "rejected", rows |-> <<>>]
        ELSE [outcome |-> "resolved",
              rows |-> [k \in 1..Cardinality(ids) |->
                          [timestamp |-> dateFromParts(sorted[k]),
                           value |-> aggregationOp(aggregation, values(sorted[k])),
                           count |-> Len(group(sorted[k]))]]]

\* aggregateData called: its result, or the aggregation's error rethrown.
AggregateData(deviceId, type, aggregation, timeWindow, startTime, endTime) ==
  /\ lastQuery = NoQuery
  /\ LET res == aggregateData(telemetryDocs, deviceId, type, aggregation, timeWindow,
                              startTime, endTime)
     IN  lastQuery' = [op |-> "aggregateData", deviceId |-> deviceId, type |-> type,
                       aggregation |-> aggregation, timeWindow |-> timeWindow,
                       startTime |-> startTime, endTime |-> endTime,
                       outcome |-> res.outcome, rows |-> res.rows]
  /\ UNCHANGED telemetryDocs
  /\ UNCHANGED <<regVars, rpcVars, pollVars, telVars, brokerVars, plcVars, sweepVars, hookVars>>

\* The readings the aggregations are checked on: one device and type, instants in
\* two years, in one hour, in different weeks and in different months.
AggregateDates ==
  {Date(2023, 12, 31, 23, 10), Date(2024, 1, 1, 1, 10), Date(2024, 1, 1, 1, 40),
   Date(2024, 1, 9, 10, 0), Date(2024, 2, 1, 0, 0)}
AggregateValues == {NumberValue(1), NumericString(4), TextValue}
AggregateDocs ==
  {[deviceId |-> "d1", type |-> "temp", timestamp |-> t, value |-> v, metadata |-> "a"] :
     t \in AggregateDates, v \in AggregateValues}
Aggregations == {"avg", "min", "max", "sum", "count"}
TimeWindows == {"minute", "hour", "day", "week", "month"}
TimeRanges ==
  {[startTime |-> NoTime, endTime |-> NoTime],
   [startTime |-> Date(2024, 1, 1, 1, 10), endTime |-> Date(2024, 1, 9, 10, 0)]}

NextAggregate ==
  \/ /\ lastQuery = NoQuery /\ Len(telemetryDocs) < MaxDocs
     /\ \E doc \in AggregateDocs : TelemetrySaved(doc)
  \/ /\ lastQuery = NoQuery
     /\ \E aggregation \in Aggregations, timeWindow \in TimeWindows, range \in TimeRanges :
          AggregateData("d1", "temp", aggregation, timeWindow, range.startTime, range.endTime)
  \/ QueryReturn

\* ----------------------------------------- time series (entity telemetry)
\* getAggregationOperator: the accumulator for an aggregation name, applied to the
\* values of a group in ts order; NONE and unknown names take the first value.
getAggregationOperator(aggType, ns) ==
  CASE aggType = "AVG"   -> Fraction(SumSeq(ns), Len(ns))
    [] aggType = "SUM"   -> Fraction(SumSeq(ns), 1)
    [] aggType = "MIN"   -> Fraction(MinSeq(ns), 1)
    [] aggType = "MAX"   -> Fraction(MaxSeq(ns), 1)
    [] aggType = "COUNT" -> Fraction(Len(ns), 1)
    [] OTHER             -> Fraction(ns[1], 1)

\* getTimeseries lines 105-120: the entity's documents of the key with
\* startTs <= ts <= endTs.
timeseriesMatch(docs, entityId, key, startTs, endTs) ==
  SelectSeq(docs, LAMBDA doc :
    /\ doc.entityId = entityId
    /\ doc.key = key
    /\ (startTs # 0 => doc.ts >= startTs)
    /\ (endTs # 0 => doc.ts <= endTs))

\* $floor of (ts - startTs) / interval.
intervalOf(doc, startTs, interval) == (doc.ts - startTs) \div interval

\* The first limit elements of a sequence ($limit, .limit()).
limitTo(rows, limit) == SubSeq(rows, 1, IF Len(rows) < limit THEN Len(rows) ELSE limit)

\* Lines 126-149 on one sorted order of the matched documents: $group by
\* interval number, $sort by it, $limit.
timeseriesPipeline(sorted, startTs, interval, limit, agg) ==
  LET numbers == {intervalOf(sorted[i], startTs, interval) : i \in 1..Len(sorted)}
      group(n) == SelectSeq(sorted, LAMBDA doc : intervalOf(doc, startTs, interval) = n)
      values(n) == [i \in 1..Len(group(n)) |-> group(n)[i].value]
      ordered == [k \in 1..Cardinality(numbers) |->
                    CHOOSE n \in numbers : Cardinality({c \in numbers : c < n}) = k - 1]
  IN  limitTo([k \in 1..Cardinality(numbers) |->
                 [ts |-> group(ordered[k])[1].ts,
                  value |-> getAggregationOperator(agg, values(ordered[k]))]],
              limit)

\* TelemetrySchema.statics.getTimeseries for one key: the answers it can give.
\* With an aggregation and a positive interval the pipeline runs; otherwise the
\* newest limit documents are returned as they are.
getTimeseries(docs, entityId, key, startTs, endTs, limit, agg) ==
  LET matched == timeseriesMatch(docs, entityId, key, startTs, endTs)
      interval == (endTs - startTs) \div limit
  IN  IF agg # "NONE" /\ interval > 0
        THEN {timeseriesPipeline(sorted, startTs, interval, limit, agg) :
                sorted \in sort(matched, "ts", 1)}
        ELSE {limitTo([i \in 1..Len(sorted) |->
                         [ts |-> sorted[i].ts, value |-> Fraction(sorted[i].value, 1)]],
                      limit) :
                sorted \in sort(matched, "ts", -1)}

\* saveBatch: the batch built from the telemetry object is inserted at once.
SaveBatch(batch) ==
  /\ lastQuery = NoQuery
  /\ Len(telemetryDocs) + Len(batch) <= MaxSamples
  /\ telemetryDocs' = telemetryDocs \o batch
  /\ UNCHANGED lastQuery
  /\ UNCHANGED <<regVars, rpcVars, pollVars, telVars, brokerVars, plcVars, sweepVars, hookVars>>

GetTimeseries(entityId, key, startTs, endTs, limit, agg) ==
  /\ lastQuery = NoQuery
  /\ \E rows \in getTimeseries(telemetryDocs, entityId, key, startTs, endTs, limit, agg) :
       lastQuery' = [op |-> "getTimeseries", entityId |-> entityId, key |-> key,
                     startTs |-> startTs, endTs |-> endTs, limit |-> limit, agg |-> agg,
                     outcome |-> "resolved", rows |-> rows]
  /\ UNCHANGED telemetryDocs
  /\ UNCHANGED <<regVars, rpcVars, pollVars, telVars, brokerVars, plcVars, sweepVars, hookVars>>

\* One hour in ms split into three intervals of twenty minutes, and samples 5, 25
\* and 45 minutes into the hour and at its very end.
TimeseriesRange == [startTs |-> 3600000, endTs |-> 7200000, limit |-> 3]
TimeseriesDocs ==
  {[entityId |-> "d1", entityType |-> "DEVICE", key |-> "temp", ts |-> ts, value |-> v] :
     ts \in {3900000, 5100000, 6300000, 7200000}, v \in {1, 4}}
AggTypes == {"AVG", "SUM", "MIN", "MAX", "COUNT", "NONE"}

NextTimeseries ==
  \/ /\ lastQuery = NoQuery /\ Len(telemetryDocs) < MaxSamples
     /\ \E batch \in SeqsUpTo(TimeseriesDocs, 2) \ {<<>>} : SaveBatch(batch)
  \/ /\ lastQuery = NoQuery
     /\ \E agg \in AggTypes :
          GetTimeseries("d1", "temp", TimeseriesRange.startTs, TimeseriesRange.endTs,
                        TimeseriesRange.limit, agg)
  \/ QueryReturn

\* ------------------------------------------- PLC register codec and reads
\* A 16-bit Modbus word as read from the device.
RawWords == 0..65535

\* A register descriptor of device.modbusConfig.registers.
Register(name, address, type, dataType, scaling) ==
  [name |-> name, address |-> address, type |-> type, dataType |-> dataType,
   scaling |-> scaling]

\* The dataType values of the Device schema.
DataTypes == {"int16", "uint16", "int32", "uint32", "float", "boolean"}

\* A value on the engineering side: a number or a boolean.
Number(n) == [kind |-> "number", n |-> n]
Boolean(n) == [kind |-> "boolean", n |-> IF n # 0 THEN 1 ELSE 0]

\* register.scaling || 1: a scaling of 0 (or none) is replaced by 1.
scalingOf(register) == IF register.scaling = 0 THEN 1 ELSE register.scaling

\* (rawValue & 0x8000) ? (0xFFFF0000 | rawValue) : rawValue, in 32-bit two's
\* complement: with bit 15 set the upper 16 bits are set too, i.e. the low 16
\* bits minus 65536.
signExtend(rawValue) ==
  IF (rawValue \div 32768) % 2 = 1 THEN (rawValue % 65536) - 65536 ELSE rawValue

processRegisterValueNoSign(rawValue, register) ==
  IF register.dataType = "boolean" THEN Boolean(rawValue)
  ELSE Number(rawValue * scalingOf(register))

\* processRegisterValue: every dataType other than boolean and int16, the
\* unknown ones included, is the raw word times the scaling.
processRegisterValue(rawValue, register) ==
  CASE register.dataType = "boolean" -> Boolean(rawValue)
    [] register.dataType = "int16" -> Number(signExtend(rawValue) * scalingOf(register))
    [] OTHER -> Number(rawValue * scalingOf(register))

\* Math.round(a / b) for integers a and b # 0: the nearest integer, a half going up.
round(a, b) ==
  IF b > 0 THEN (2 * a + b) \div (2 * b) ELSE (2 * (-a) + (-b)) \div (2 * (-b))

\* prepareValueForWrite: boolean is the truthiness of the value; every other
\* dataType, the unknown ones included, is the value divided by the scaling,
\* rounded.
prepareValueForWrite(value, register) ==
  IF register.dataType = "boolean"
    THEN Boolean(value.n)
    ELSE Number(round(value.n, scalingOf(register)))

NoCodecCall == [op |-> "none"]
NoRaw == -1

\* processRegisterValue applied to a word read from the device.
ProcessRegisterValue(rawValue, register) ==
  /\ codecCall = NoCodecCall
  /\ codecCall' = [op |-> "processRegisterValue", raw |-> rawValue, register |-> register,
                   value |-> processRegisterValue(rawValue, register),
                   encoded |-> Number(NoRaw)]
  /\ UNCHANGED <<fetchCall, wireWrites>>
  /\ UNCHANGED <<regVars, rpcVars, pollVars, telVars, brokerVars, queryVars, sweepVars, hookVars>>

\* prepareValueForWrite applied to a value.
PrepareValueForWrite(value, register) ==
  /\ codecCall = NoCodecCall
  /\ codecCall' = [op |-> "prepareValueForWrite", raw |-> NoRaw, register |-> register,
                   value |-> value, encoded |-> prepareValueForWrite(value, register)]
  /\ UNCHANGED <<fetchCall, wireWrites>>
  /\ UNCHANGED <<regVars, rpcVars, pollVars, telVars, brokerVars, queryVars, sweepVars, hookVars>>

\* The value just decoded from a register is encoded for the same register.
WriteBack ==
  /\ codecCall.op = "processRegisterValue"
  /\ codecCall' = [codecCall EXCEPT
                     !.op = "prepareValueForWrite",
                     !.encoded = prepareValueForWrite(codecCall.value, codecCall.register)]
  /\ UNCHANGED <<fetchCall, wireWrites>>
  /\ UNCHANGED <<regVars, rpcVars, pollVars, telVars, brokerVars, queryVars, sweepVars, hookVars>>

\* The caller has the result.
CodecReturn ==
  /\ codecCall # NoCodecCall
  /\ codecCall' = NoCodecCall
  /\ UNCHANGED <<fetchCall, wireWrites>>
  /\ UNCHANGED <<regVars, rpcVars, pollVars, telVars, brokerVars, queryVars, sweepVars, hookVars>>

NoFetch == [pc |-> "idle"]

InitPlc ==
  /\ codecCall = NoCodecCall
  /\ fetchCall = NoFetch
  /\ wireWrites = <<>>

\* The 16-bit descriptors the codec is checked on, every word with each.
Scalings == {0, 1, 10, -2}
WordRegisters ==
  {Register("r", 1, "holdingRegister", dataType, scaling) :
     dataType \in {"int16", "uint16"}, scaling \in Scalings}
WriteValues == {Number(-3), Number(0), Number(25), Number(70000)}

NextCodec ==
  \/ /\ codecCall = NoCodecCall
     /\ \E rawValue \in RawWords, register \in WordRegisters :
          ProcessRegisterValue(rawValue, register)
  \/ /\ codecCall = NoCodecCall
     /\ \E value \in WriteValues, register \in WordRegisters :
          PrepareValueForWrite(value, register)
  \/ WriteBack
  \/ CodecReturn

\* writeRegister: getClient, prepareValueForWrite, then the write call chosen by
\* the register type; an error of any step is logged and rethrown.
WriteRegister(register, value, connected, writeOk) ==
  /\ codecCall = NoCodecCall
  /\ Len(wireWrites) < MaxWrites
  /\ LET processedValue == prepareValueForWrite(value, register)
         fn == CASE register.type = "holdingRegister" -> "writeRegister"
                 [] register.type = "coil" -> "writeCoil"
                 [] OTHER -> "none"
         wrote == connected /\ fn # "none"
     IN  /\ wireWrites' =
              IF wrote
                THEN Append(wireWrites, [fn |-> fn, address |-> register.address,
                                         value |-> processedValue])
                ELSE wireWrites
         /\ codecCall' = [op |-> "writeRegister", raw |-> NoRaw, register |-> register,
                          value |-> value, encoded |-> processedValue, wrote |-> wrote,
                          outcome |-> IF wrote /\ writeOk THEN "resolved" ELSE "rejected"]
  /\ UNCHANGED fetchCall
  /\ UNCHANGED <<regVars, rpcVars, pollVars, telVars, brokerVars, queryVars, sweepVars, hookVars>>

\* The descriptors writes are checked on: writable and read-only register types,
\* schema dataTypes and one outside the schema.
WriteRegisters ==
  {Register("r", 1, type, dataType, scaling) :
     type \in {"holdingRegister", "coil", "inputRegister"},
     dataType \in {"int16", "boolean", "string"},
     scaling \in {1, 10}}
SampleWords == {0, 1, 32768, 65535}

NextWrite ==
  \/ /\ codecCall = NoCodecCall
     /\ \E rawValue \in SampleWords, register \in WriteRegisters :
          ProcessRegisterValue(rawValue, register)
  \/ /\ codecCall = NoCodecCall
     /\ \E value \in WriteValues, register \in WriteRegisters :
          PrepareValueForWrite(value, register)
  \/ /\ codecCall = NoCodecCall /\ Len(wireWrites) < MaxWrites
     /\ \E value \in WriteValues, register \in WriteRegisters,
           connected \in BOOLEAN, writeOk \in BOOLEAN :
          WriteRegister(register, value, connected, writeOk)
  \/ WriteBack
  \/ CodecReturn

\* -------------------------------------------------- polling read of a device
NoValue == [kind |-> "undefined", n |-> 0]

\* readRegister: getClient, the read call for the register type, then
\* processRegisterValue; any failure is logged and rethrown.
readRegister(register, connected, readOk, rawValue) ==
  IF ~connected
    THEN [ok |-> FALSE, value |-> NoValue, error |-> "Failed to connect to device"]
  ELSE IF register.type \notin {"holdingRegister", "inputRegister", "coil", "discreteInput"}
    THEN [ok |-> FALSE, value |-> NoValue, error |-> "Unsupported register type"]
  ELSE IF ~readOk
    THEN [ok |-> FALSE, value |-> NoValue, error |-> "read failed"]
  ELSE [ok |-> TRUE, value |-> processRegisterValue(rawValue, register), error |-> "none"]

\* The position after the result of one register was pushed.
nextRegister(call, result) ==
  [call EXCEPT
     !.results = Append(@, result),
     !.idx = @ + 1,
     !.pc = IF call.idx = Len(call.registers) THEN "done" ELSE "reading",
     !.outcome = IF call.idx = Len(call.registers) THEN "resolved" ELSE "none"]

readFailedAborts(call, register, error) ==
  [call EXCEPT !.pc = "done", !.outcome = "rejected", !.error = error]

\* The catch inside the loop (lines 30-38): the error is recorded for the
\* register and the loop goes on.
readFailed(call, register, error) ==
  nextRegister(call, [name |-> register.name, address |-> register.address,
                      value |-> NoValue, error |-> error])

\* fetchLatestData entered: a device without registers is refused, otherwise the
\* first readRegister is awaited.
FetchLatestData(registers) ==
  /\ fetchCall.pc = "idle"
  /\ fetchCall' =
       IF registers = <<>>
         THEN [pc |-> "done", registers |-> registers, idx |-> 1, results |-> <<>>,
               outcome |-> "rejected", error |-> "Device has no registers configured"]
         ELSE [pc |-> "reading", registers |-> registers, idx |-> 1, results |-> <<>>,
               outcome |-> "none", error |-> "none"]
  /\ UNCHANGED <<codecCall, wireWrites>>
  /\ UNCHANGED <<regVars, rpcVars, pollVars, telVars, brokerVars, queryVars, sweepVars, hookVars>>

\* plcService.readRegister settled for the current register (lines 22-38).
ReadRegisterDone(connected, readOk, rawValue) ==
  /\ fetchCall.pc = "reading"
  /\ LET register == fetchCall.registers[fetchCall.idx]
         read == readRegister(register, connected, readOk, rawValue)
     IN  fetchCall' =
           IF read.ok
             THEN nextRegister(fetchCall,
                               [name |-> register.name, address |-> register.address,
                                value |-> read.value, error |-> "none"])
             ELSE readFailed(fetchCall, register, read.error)
  /\ UNCHANGED <<codecCall, wireWrites>>
  /\ UNCHANGED <<regVars, rpcVars, pollVars, telVars, brokerVars, queryVars, sweepVars, hookVars>>

\* fetchLatestData has returned or thrown.
FetchReturn ==
  /\ fetchCall.pc = "done"
  /\ fetchCall' = NoFetch
  /\ UNCHANGED <<codecCall, wireWrites>>
  /\ UNCHANGED <<regVars, rpcVars, pollVars, telVars, brokerVars, queryVars, sweepVars, hookVars>>

\* The register configurations polled: up to MaxRegisters of a holding register,
\* a coil and a register of an unknown type, in any order.
PolledRegisters ==
  {Register("ra", 1, "holdingRegister", "int16", 1),
   Register("rb", 2, "coil", "boolean", 1),
   Register("rc", 3, "bogus", "uint16", 10)}

NextFetch ==
  \/ /\ fetchCall.pc = "idle"
     /\ \E registers \in SeqsUpTo(PolledRegisters, MaxRegisters) : FetchLatestData(registers)
  \/ \E connected \in BOOLEAN, readOk \in BOOLEAN, rawValue \in {1, 65535} :
       ReadRegisterDone(connected, readOk, rawValue)
  \/ FetchReturn

\* ------------------------------------------- periodic connection check
NoSweep == [pc |-> "idle", dev |-> 0, client |-> NoClient, todo |-> {}]

\* timeSinceLastConnected > config.get('plc.reconnectInterval'), lines 616-617.
stale(d) == regNow - lastConnected[d] > ReconnectInterval

\* Time passes.
Elapse ==
  /\ regNow < MaxRegNow
  /\ regNow' = regNow + ClockStep
  /\ UNCHANGED <<lastConnected, sweep, pingFailures>>
  /\ UNCHANGED <<regVars, rpcVars, pollVars, telVars, brokerVars, queryVars, plcVars, hookVars>>

\* The interval of line 613 elapses and its callback starts iterating the entries
\* (one run of the callback at a time).
SweepFire ==
  /\ sweep.pc = "idle"
  /\ sweep' = [NoSweep EXCEPT !.pc = "iterate", !.todo = Devices]
  /\ UNCHANGED <<regNow, lastConnected, pingFailures>>
  /\ UNCHANGED <<regVars, rpcVars, pollVars, telVars, brokerVars, queryVars, plcVars, hookVars>>

\* The loop reaches the entry of device d, lines 614-628: an entry that is not
\* older than the reconnect interval is passed over; an open client is pinged with
\* a read; a client that is not open is restarted.
SweepVisit(d) ==
  /\ sweep.pc = "iterate"
  /\ d \in sweep.todo
  /\ activeConnections[d] # NoClient
  /\ IF stale(d) /\ clientState[activeConnections[d]] # "open"
       THEN closeConnection(Sweeper, StartCall(Sweeper, "restartConnection", d, "restart"),
                            activeConnections, clientState, deviceStatus)
       ELSE /\ sweep' = IF stale(d)
                          THEN [sweep EXCEPT !.pc = "ping_io", !.dev = d,
                                             !.client = activeConnections[d],
                                             !.todo = @ \ {d}]
                          ELSE [sweep EXCEPT !.todo = @ \ {d}]
            /\ UNCHANGED <<regNow, lastConnected, pingFailures>>
            /\ UNCHANGED <<regVars, rpcVars, pollVars, telVars, brokerVars, queryVars,
                           plcVars, hookVars>>

\* client.readHoldingRegisters(0, 1) settles, lines 624 and 629-630: a read that
\* fails is caught.
PingDone(ok) ==
  /\ sweep.pc = "ping_io"
  /\ sweep' = [sweep EXCEPT !.pc = IF ok THEN "iterate" ELSE "catch"]
  /\ pingFailures' = [pingFailures EXCEPT ![sweep.dev] =
                        IF ok THEN 0 ELSE IF @ < MaxFailures THEN @ + 1 ELSE @]
  /\ UNCHANGED <<regNow, lastConnected>>
  /\ UNCHANGED <<regVars, rpcVars, pollVars, telVars, brokerVars, queryVars, plcVars, hookVars>>

\* The catch of lines 629-632 restarts the connection of the device.
SweepCatch ==
  /\ sweep.pc = "catch"
  /\ closeConnection(Sweeper, StartCall(Sweeper, "restartConnection", sweep.dev, "restart"),
                     activeConnections, clientState, deviceStatus)

\* The loop has no entry left to visit: the callback returns.
SweepEnd ==
  /\ sweep.pc = "iterate"
  /\ \A d \in sweep.todo : activeConnections[d] = NoClient
  /\ sweep' = NoSweep
  /\ UNCHANGED <<regNow, lastConnected, pingFailures>>
  /\ UNCHANGED <<regVars, rpcVars, pollVars, telVars, brokerVars, queryVars, plcVars, hookVars>>

InitSweep ==
  /\ regNow = 0
  /\ lastConnected = [d \in Devices |-> Never]
  /\ sweep = NoSweep
  /\ pingFailures = [d \in Devices |-> 0]

\* The callers that use the registry while the periodic check runs.
Operators == {p \in Callers : \A q \in Callers : p <= q}

NextSweep ==
  \/ \E p \in Operators, d \in Devices : InitializeDevice(p, d)
  \/ \E p \in Operators, d \in Devices : RestartConnection(p, d)
  \/ \E p \in Operators, d \in Devices : CloseConnection(p, d)
  \/ \E p \in Operators, d \in Devices : GetClient(p, d)
  \/ \E p \in Operators \cup {Sweeper} : FindByIdDone(p)
  \/ \E p \in Operators \cup {Sweeper}, ok \in BOOLEAN : ClientCloseDone(p, ok)
  \/ \E p \in Operators \cup {Sweeper}, ok \in BOOLEAN : ConnectClientDone(p, ok)
  \/ \E p \in Operators \cup {Sweeper} : UpdateDeviceStatusDone(p)
  \/ \E c \in ClientIds : ClientDrop(c)
  \/ Elapse
  \/ SweepFire
  \/ \E d \in Devices : SweepVisit(d)
  \/ \E ok \in BOOLEAN : PingDone(ok)
  \/ SweepCatch
  \/ SweepEnd

\* ------------------------------------------------------- specifications
Init ==
  /\ InitRegistry /\ InitRpc /\ InitPoll /\ InitTelemetry /\ InitBroker
  /\ InitQuery /\ InitPlc /\ InitSweep /\ InitHooks

SpecRegistry == Init /\ [][NextRegistry]_vars

SpecRpc == Init /\ [][NextRpc]_vars

SpecPoll == Init /\ [][NextPoll]_vars

SpecTelemetry == Init /\ [][NextTelemetry]_vars

SpecBroker == Init /\ [][NextBroker]_vars

SpecLatest == Init /\ [][NextLatest]_vars

SpecAggregate == Init /\ [][NextAggregate]_vars

SpecTimeseries == Init /\ [][NextTimeseries]_vars

SpecCodec == Init /\ [][NextCodec]_vars

SpecWrite == Init /\ [][NextWrite]_vars

SpecFetch == Init /\ [][NextFetch]_vars

SpecSweep == Init /\ [][NextSweep]_vars

SpecSubscribe == Init /\ [][NextSubscribe]_vars

\* The interval of the periodic check keeps firing, its callback and the calls it
\* awaits go on, and a connect attempt it makes is not bound to fail.
SpecSweepFair ==
  /\ SpecSweep
  /\ WF_vars(SweepFire)
  /\ WF_vars(\E d \in Devices : SweepVisit(d))
  /\ WF_vars(\E ok \in BOOLEAN : PingDone(ok))
  /\ WF_vars(SweepCatch)
  /\ WF_vars(SweepEnd)
  /\ WF_vars(\E ok \in BOOLEAN : ClientCloseDone(Sweeper, ok))
  /\ WF_vars(\E ok \in BOOLEAN : ConnectClientDone(Sweeper, ok))
  /\ SF_vars(ConnectClientDone(Sweeper, TRUE))
  /\ WF_vars(UpdateDeviceStatusDone(Sweeper))

\* The event loop runs a due timer, and time does not stop.
SpecRpcFair ==
  /\ SpecRpc
  /\ WF_vars(Tick)
  /\ \A r \in ReqIds : WF_vars(TimerFire(r))

\* ------------------------------------------------------------- claims
\* C1: for every device, every open transport client of the device is the one
\* the registry currently holds for it (at most one non-closed session).
C1_OneOpenSessionPerDevice ==
  \A c \in ClientIds :
    clientState[c] = "open" => activeConnections[clientDev[c]] = c

\* C2: at most one connect attempt is in flight per device at any time.
C2_OneAcquisitionInFlight ==
  \A d \in Devices :
    Cardinality({p \in Callers : caller[p].pc = "connect_io" /\ caller[p].dev = d}) <= 1

\* C3: between a response and the timer, the loser does nothing: a response
\* handled after the request was settled by its timeout performs no unsubscribe and
\* no resolve or reject call, and the timer of a request settled by a response
\* does not fire.
C3_LosingPathInert ==
  [][\A r \in ReqIds :
       /\ (rpc[r].outcome = "timeout" /\ rpc'[r].respAt # rpc[r].respAt) =>
            /\ rpc'[r].unsubs = rpc[r].unsubs
            /\ rpc'[r].settles = rpc[r].settles
       /\ (rpc[r].outcome = "resolved" /\ rpc[r].timer # "fired") =>
            rpc'[r].timer # "fired"]_vars

\* C4: a settled request has no message handler registered, no timer armed, and
\* its response topic was unsubscribed when it settled.
C4_CleanupOnSettle ==
  \A r \in ReqIds :
    Settled(r) => /\ ~rpc[r].handler
                  /\ rpc[r].timer # "armed"
                  /\ ~rpc[r].subAtSettle

\* C5: two different sendRpcRequest calls never use the same request id.
C5_UniqueRequestIds ==
  \A r1, r2 \in ReqIds :
    (r1 # r2 /\ Created(r1) /\ Created(r2)) => rpc[r1].requestId # rpc[r2].requestId

\* C6: a response delivered before the timeout expires (e.g. at +3000ms of 10000ms)
\* resolves the request with the parsed response payload; a timer that expires
\* rejects it with a timeout error, not before timeoutAt; in both cases the
\* response topic is unsubscribed when the request settles.
C6_ResponseOrTimeout ==
  \A r \in ReqIds :
    /\ (rpc[r].respAt # Never /\ rpc[r].respAt < rpc[r].timeoutAt) =>
         /\ rpc[r].outcome = "resolved"
         /\ rpc[r].result = parsePayload(rpc[r].respPayload).value
         /\ ~rpc[r].subAtSettle
    /\ rpc[r].timer = "fired" =>
         /\ rpc[r].outcome = "timeout"
         /\ ~rpc[r].subAtSettle
         /\ now >= rpc[r].timeoutAt

\* One request resolved by a response at +3000ms, another rejected at +10000ms
\* after its request was published and never answered.
C6_Witness ==
  \E r1, r2 \in ReqIds :
    /\ r1 # r2
    /\ rpc[r1].timeoutAt = rpc[r1].requestId + 10000
    /\ rpc[r1].respAt = rpc[r1].requestId + 3000
    /\ rpc[r1].outcome = "resolved"
    /\ rpc[r2].outcome = "timeout"
    /\ rpc[r2].pub = "acked"
    /\ rpc[r2].respAt = Never
    /\ now = rpc[r2].requestId + 10000

\* C7: a failed publish rejects with a publish error, an expired timer with a
\* timeout error, and a response whose payload is not parseable with a parse error.
C7_FailureSignals ==
  \A r \in ReqIds :
    /\ (rpc[r].pub = "failed" /\ rpc[r].timer # "fired") => rpc[r].outcome = "publishError"
    /\ rpc[r].timer = "fired" => rpc[r].outcome = "timeout"
    /\ (rpc[r].respAt # Never /\ ~IsJson(rpc[r].respPayload) /\ rpc[r].timer # "fired") =>
         rpc[r].outcome = "parseError"

\* C8: no request is pending after its timeoutAt, and every pending request is
\* eventually resolved or rejected.
C8_PendingSettles ==
  /\ [](\A r \in ReqIds : Pending(r) => now <= rpc[r].timeoutAt)
  /\ \A r \in ReqIds : Pending(r) ~> Settled(r)

\* A request rejected by its timer while its subscribe callback was still due.
C8_Witness ==
  \E r \in ReqIds :
    /\ rpc[r].outcome = "timeout"
    /\ rpc[r].subCb = "waiting"
    /\ now = rpc[r].timeoutAt

\* C9 as stated: a request that was pending when close() ran is settled by a
\* timeout error and by nothing else.
C9_CloseTimesOut ==
  \A r \in pendingAtClose : Settled(r) => rpc[r].outcome = "timeout"

\* C9 as amended: every request pending when close() runs is eventually rejected,
\* with a timeout error or, when its subscribe was still unacknowledged at close,
\* with a subscribe error; none stays pending.
C9_CloseRejectsPending ==
  \A r \in ReqIds :
    /\ [](r \in pendingAtClose /\ Settled(r) =>
            \/ rpc[r].outcome = "timeout"
            \/ rpc[r].outcome = "subscribeError" /\ rpc[r].pub = "none")
    /\ (r \in pendingAtClose) ~> (rpc[r].outcome \in {"timeout", "subscribeError"})

\* close() ran with two requests pending: one has been rejected by its timer, the
\* other by the error of its unacknowledged subscribe.
C9_Witness ==
  /\ clientEnded
  /\ \E r1, r2 \in pendingAtClose :
       /\ rpc[r1].outcome = "timeout"
       /\ rpc[r2].outcome = "subscribeError"

\* C10: for every device the active polling timers are exactly the one registered
\* for it, if any: never two, and exactly one after startPolling, also when
\* startPolling replaced an earlier timer.
C10_OnePollingTimerPerDevice ==
  \A d \in Devices :
    {h \in activeTimers : timerDevice[h] = d} =
      IF pollingTimer[d] = NoTimer THEN {} ELSE {pollingTimer[d]}

\* startPolling has just replaced a device's earlier timer.
C10_Witness ==
  \E d \in Devices :
    /\ pollLog[d] = "restarted"
    /\ Cardinality({h \in activeTimers : timerDevice[h] = d}) = 1
    /\ \E h \in TimerIds : timerDevice[h] = d /\ h \notin activeTimers /\ h < nextTimer

\* C11: a stopPolling call for a device that has a polling task cancels the
\* task's timer and removes the task, leaving every other timer as it was; a call
\* for a device without a task changes no timer and no task of any device.
C11_StopPollingFrame ==
  [][\A d \in Devices :
       /\ (pollLog'[d] = "stopped" /\ pollLog[d] # "stopped") =>
            /\ pollingTimer[d] # NoTimer
            /\ pollingTimer'[d] = NoTimer
            /\ activeTimers' = activeTimers \ {pollingTimer[d]}
            /\ \A e \in Devices \ {d} : pollingTimer'[e] = pollingTimer[e]
       /\ (pollLog'[d] = "noop" /\ pollLog[d] # "noop") =>
            /\ pollingTimer[d] = NoTimer
            /\ activeTimers' = activeTimers
            /\ pollingTimer' = pollingTimer]_vars

\* A device's task was stopped, its timer cancelled, and a further stopPolling for
\* it was a no-op that left the other device's running timer alone.
C11_Witness ==
  \E d, e \in Devices :
    /\ d # e
    /\ pollLog[d] = "noop"
    /\ \E h \in TimerIds : h < nextTimer /\ timerDevice[h] = d /\ h \notin activeTimers
    /\ pollingTimer[e] # NoTimer /\ pollingTimer[e] \in activeTimers

\* An MQTT topic level that is empty (two slashes in a row, or a slash at an end).
HasEmptyLevel(topic) == \E i \in 1..Len(split(topic)) : split(topic)[i] = ""

\* C12: a message from an authenticated device on v1/devices/{deviceId}/telemetry
\* is dispatched to telemetry ingestion with that device id, one on
\* v1/devices/{deviceId}/attributes to attribute handling, one on
\* v1/devices/{deviceId}/rpc/request/{requestId} to RPC-request handling, and a
\* message on any other topic is ignored.
C12_TopicClassification ==
  LET p == lastPublish
  IN (p.route # "none" /\ p.authed /\ ~HasEmptyLevel(p.topic)) =>
       /\ matchFilter(p.topic, telemetryTopic) =>
            p.route = "telemetry" /\ p.processed /\ p.deviceId = p.topic[5]
       /\ matchFilter(p.topic, attributesTopic) =>
            p.route = "attributes" /\ p.processed /\ p.deviceId = p.topic[5]
       /\ matchFilter(p.topic, rpcRequestTopic) =>
            p.route = "rpcRequest" /\ p.processed /\ p.deviceId = p.topic[5]
       /\ (/\ ~matchFilter(p.topic, telemetryTopic)
           /\ ~matchFilter(p.topic, attributesTopic)
           /\ ~matchFilter(p.topic, rpcRequestTopic)) => p.route = "ignored"

\* C13: no saveTelemetry call and no internal/system message comes from a
\* publisher without deviceInfo (or from no client at all), and a telemetry,
\* attribute or RPC-request message of such a publisher is not processed.
C13_UnauthenticatedDropped ==
  /\ \A e \in saveLog : e.authed
  /\ \A e \in sysLog : e.authed
  /\ (lastPublish.route \in {"telemetry", "attributes", "rpcRequest"}
        /\ ~lastPublish.authed) => ~lastPublish.processed

\* A message published without a client was routed to the telemetry handler and
\* dropped there.
C13_Witness ==
  /\ lastPublish.publisher = NoMqttClient
  /\ lastPublish.route = "telemetry"
  /\ ~lastPublish.processed

\* C14: a connection is accepted exactly when it presents the internal
\* credentials, or a non-empty client id with the access token of an existing,
\* active device; a refused connection gets an error, one callback, and neither
\* deviceInfo nor the internal flag.
C14_AuthenticateAccepts ==
  \A c \in MqttClients :
    LET m == mclient[c]
        internalOk == m.username = InternalUsername /\ m.password = InternalPassword
        deviceOk == /\ m.id # ""
                    /\ m.id \in DOMAIN DeviceDirectory
                    /\ m.password = DeviceDirectory[m.id].accessToken
                    /\ DeviceDirectory[m.id].active
    IN m.accepted # "none" =>
         /\ m.callbacks = 1
         /\ m.accepted = "true" <=> (internalOk \/ deviceOk)
         /\ m.accepted = "false" =>
              m.error # "none" /\ m.deviceInfo = "none" /\ ~m.isInternal
         /\ m.deviceInfo # "none" => deviceOk /\ m.deviceInfo = m.id

\* An inactive device presenting its own token has been refused.
C14_Witness ==
  \E c \in MqttClients :
    /\ mclient[c].accepted = "false"
    /\ mclient[c].id = "d2" /\ mclient[c].password = "tok2"
    /\ mclient[c].error = "Device is inactive"

\* A batch of five items of which the third has no value.
FiveThirdMissing ==
  BatchData(<<ValidItem, ValidItem, NoValueItem, ValidItem, ValidItem>>)

\* C15 as stated: of a batch of five items whose third has no value, items 1, 2, 4
\* and 5 are persisted.
C15_BatchSkipsInvalid ==
  (tcall.pc = "done" /\ tcall.data = FiveThirdMissing
     /\ tcall.error # "notFound" /\ ~tcall.dbFailed) =>
       tcall.savedIdx = {1, 2, 4, 5}

\* C15 as amended: of a batch of five items whose third has no value, items 1 and 2
\* are persisted and stay persisted, the call is rejected with the validation
\* error of item 3, and items 4 and 5 are never handed to save().
C15_BatchStopsAtInvalid ==
  (tcall.pc = "done" /\ tcall.data = FiveThirdMissing
     /\ tcall.error # "notFound" /\ ~tcall.dbFailed) =>
       /\ tcall.savedIdx = {1, 2}
       /\ tcall.attempted = {1, 2}
       /\ tcall.outcome = "error" /\ tcall.error = "itemInvalid"
       /\ [deviceId |-> tcall.deviceId, type |-> "temp", value |-> "21"] \in stored

\* Such a batch has been processed for a known device.
C15_Witness ==
  /\ tcall.pc = "done" /\ tcall.data = FiveThirdMissing
  /\ tcall.error = "itemInvalid"
  /\ tcall.savedIdx = {1, 2}

\* The first item of a batch that lacks its type or its value (0 if none does).
FirstLacking(values) ==
  LET lacking == {i \in 1..Len(values) :
                    values[i].type = "absent" \/ values[i].value = "absent"}
  IN IF lacking = {} THEN 0 ELSE CHOOSE i \in lacking : \A j \in lacking : i <= j

\* C16: an item lacking its type or value is never handed to save() and never
\* persisted; when a batch is rejected for such an item, exactly the items
\* before it have been persisted and they remain in the collection.
C16_ItemsIndependent ==
  LET values == tcall.data.values
      slotOf(i) == IF tcall.data.kind = "single" THEN 0 ELSE i
  IN /\ \A i \in 1..Len(values) :
          (values[i].type = "absent" \/ values[i].value = "absent") =>
            slotOf(i) \notin tcall.attempted /\ slotOf(i) \notin tcall.savedIdx
     /\ tcall.error = "itemInvalid" =>
          /\ tcall.outcome = "error"
          /\ tcall.savedIdx = 1..(FirstLacking(values) - 1)
          /\ tcall.attempted = tcall.savedIdx
     /\ \A i \in tcall.savedIdx \ {0} :
          [deviceId |-> tcall.deviceId, type |-> values[i].type,
           value |-> values[i].value] \in stored

\* A batch was rejected at its fourth item with the three before it persisted.
C16_Witness ==
  /\ tcall.pc = "done" /\ tcall.error = "itemInvalid"
  /\ FirstLacking(tcall.data.values) = 4
  /\ tcall.savedIdx = {1, 2, 3}

\* C17: every reading in the collection has a type and a value.
C17_StoredReadingsComplete ==
  \A r \in stored : r.type # "absent" /\ r.value \notin {"absent", "null"}

\* With readings in the collection, a save of an item whose value is null has been
\* rejected by the schema.
C17_Witness ==
  /\ stored # {}
  /\ tcall.pc = "done" /\ tcall.error = "saveFailed" /\ ~tcall.dbFailed
  /\ tcall.data.kind = "batch" /\ tcall.savedIdx # {}

AcceptedSlots(data) ==
  LET incomplete == {i \in 1..Len(data.values) :
                       \/ data.values[i].type = "absent"
                       \/ data.values[i].value \in {"absent", "null"}}
  IN IF data.kind = "single" THEN (IF incomplete = {} THEN {0} ELSE {})
     ELSE {i \in 1..Len(data.values) : \A j \in incomplete : i < j}

\* C19: a call in which a hand-off failed is not rejected for it: it persists
\* the same readings and has the same result as the data alone determines.
C19_HandoffFailureContained ==
  (tcall.pc = "done" /\ tcall.handoffFailed /\ ~tcall.dbFailed) =>
     /\ tcall.error # "rules"
     /\ tcall.savedIdx = AcceptedSlots(tcall.data)
     /\ tcall.outcome = "ok" <=>
          Cardinality(tcall.savedIdx) = Len(tcall.data.values)

\* A batch went through completely although a hand-off failed.
C19_Witness ==
  /\ tcall.pc = "done" /\ tcall.handoffFailed
  /\ tcall.data.kind = "batch" /\ Len(tcall.data.values) = 3
  /\ tcall.outcome = "ok" /\ tcall.savedIdx = {1, 2, 3}

\* C20: for an unknown device the call is rejected, nothing is handed to save(),
\* persisted or emitted; for a known device, active or not, the readings persisted
\* and emitted are those the data alone determines.
C20_DeviceChecked ==
  tcall.pc = "done" =>
    /\ tcall.deviceId \notin DOMAIN DeviceDirectory =>
         /\ tcall.outcome = "error" /\ tcall.error = "notFound"
         /\ tcall.attempted = {} /\ tcall.savedIdx = {}
         /\ \A slot \in ItemSlots : tcall.emitted[slot] = 0 /\ tcall.handed[slot] = 0
    /\ (tcall.deviceId \in DOMAIN DeviceDirectory /\ ~tcall.dbFailed
          /\ tcall.data.kind \in {"single", "batch"}) =>
         /\ tcall.savedIdx = AcceptedSlots(tcall.data)
         /\ \A slot \in tcall.savedIdx : tcall.emitted[slot] = 1

\* Telemetry of the inactive device has been persisted and emitted.
C20_Witness ==
  /\ tcall.pc = "done" /\ tcall.deviceId = "d2" /\ tcall.device = "inactive"
  /\ tcall.outcome = "ok" /\ tcall.savedIdx = {1, 2}
  /\ tcall.emitted[1] = 1 /\ tcall.emitted[2] = 1

\* The stored readings of a device and type.
ReadingsOf(deviceId, ty) ==
  {telemetryDocs[i] : i \in {j \in 1..Len(telemetryDocs) :
     telemetryDocs[j].deviceId = deviceId /\ telemetryDocs[j].type = ty}}

\* C21: a resolved getLatestTelemetry holds, for each requested type that has
\* readings of the device, exactly one row; the row's timestamp is the maximum
\* timestamp of the device's readings of that type, in whatever order they were
\* saved, and its value, timestamp and metadata are those of one stored reading.
C21_LatestIsMaxTimestamp ==
  (lastQuery.op = "getLatest" /\ lastQuery.outcome = "resolved") =>
    /\ \A ty \in {"temp", "hum"} :
         LET asked == lastQuery.types = {} \/ ty \in lastQuery.types
             rows  == {r \in lastQuery.rows : r.type = ty}
         IN  IF asked /\ ReadingsOf(lastQuery.deviceId, ty) # {}
               THEN Cardinality(rows) = 1
               ELSE rows = {}
    /\ \A r \in lastQuery.rows :
         /\ \A doc \in ReadingsOf(lastQuery.deviceId, r.type) :
              getTime(doc.timestamp) <= getTime(r.timestamp)
         /\ \E doc \in ReadingsOf(lastQuery.deviceId, r.type) :
              /\ doc.timestamp = r.timestamp
              /\ doc.value = r.value
              /\ doc.metadata = r.metadata

\* A later-timestamped reading was saved before an earlier-timestamped one of the
\* same device and type, and the query answered with the later one.
C21_Witness ==
  /\ lastQuery.op = "getLatest" /\ lastQuery.outcome = "resolved"
  /\ \E i, j \in 1..Len(telemetryDocs) :
       /\ i < j
       /\ telemetryDocs[i].deviceId = lastQuery.deviceId
       /\ telemetryDocs[j].deviceId = lastQuery.deviceId
       /\ telemetryDocs[i].type = telemetryDocs[j].type
       /\ getTime(telemetryDocs[i].timestamp) > getTime(telemetryDocs[j].timestamp)
       /\ \E r \in lastQuery.rows :
            r.type = telemetryDocs[i].type /\ r.timestamp = telemetryDocs[i].timestamp

\* The readings an aggregateData query matches, by position in the collection.
Matching(q) ==
  {i \in 1..Len(telemetryDocs) :
     /\ telemetryDocs[i].deviceId = q.deviceId
     /\ telemetryDocs[i].type = q.type
     /\ (q.startTime # NoTime =>
           getTime(telemetryDocs[i].timestamp) >= getTime(q.startTime))
     /\ (q.endTime # NoTime =>
           getTime(telemetryDocs[i].timestamp) <= getTime(q.endTime))}

\* The calendar bucket of a Date for a window, as a number that grows with time.
BucketOf(timeWindow, t) ==
  CASE timeWindow = "hour"  -> ((t.year * 12 + t.month) * 31 + t.day) * 24 + t.hour
    [] timeWindow = "day"   -> (t.year * 12 + t.month) * 31 + t.day
    [] timeWindow = "week"  -> t.year * 54 + week(t)
    [] timeWindow = "month" -> t.year * 12 + t.month

\* A Date that is the first instant of its bucket.
StartsBucket(timeWindow, t) ==
  /\ t.minute = 0
  /\ timeWindow \in {"day", "week", "month"} => t.hour = 0
  /\ timeWindow = "month" => t.day = 1
  /\ timeWindow = "week" => (dayOfWeek(t) = 0 \/ dayOfYear(t) = 1)

RECURSIVE SumCounts(_)
SumCounts(rows) == IF rows = <<>> THEN 0 ELSE Head(rows).count + SumCounts(Tail(rows))

\* C22: for the windows hour, day, week and month a resolved aggregateData holds
\* one entry per calendar bucket with a matching reading and none for an empty
\* bucket, strictly ascending by bucket start; each entry's timestamp is the start
\* of its own bucket, its count the number of matching readings in that bucket,
\* and the counts add up to the number of matching readings.
C22_BucketsAscending ==
  (/\ lastQuery.op = "aggregateData"
   /\ lastQuery.outcome = "resolved"
   /\ lastQuery.timeWindow \in {"hour", "day", "week", "month"}) =>
    LET w == lastQuery.timeWindow
        rows == lastQuery.rows
        m == Matching(lastQuery)
        buckets == {BucketOf(w, telemetryDocs[i].timestamp) : i \in m}
    IN  /\ Len(rows) = Cardinality(buckets)
        /\ \A k \in 1..Len(rows) :
             /\ StartsBucket(w, rows[k].timestamp)
             /\ BucketOf(w, rows[k].timestamp) \in buckets
             /\ rows[k].count =
                  Cardinality({i \in m : BucketOf(w, telemetryDocs[i].timestamp)
                                           = BucketOf(w, rows[k].timestamp)})
        /\ \A k \in 1..(Len(rows) - 1) :
             getTime(rows[k].timestamp) < getTime(rows[k + 1].timestamp)
        /\ SumCounts(rows) = Cardinality(m)

\* The bucket of a Date for a granularity, minute included.
GranuleOf(granularity, t) ==
  IF granularity = "minute"
    THEN BucketOf("hour", t) * 60 + t.minute
    ELSE BucketOf(granularity, t)

\* The k-th smallest of a set of numbers.
Nth(S, k) == CHOOSE b \in S : Cardinality({c \in S : c < b}) = k - 1

\* The numeric values of the matching readings of a query in a bucket.
SamplesIn(q, granularity, b) ==
  LET docs == SelectSeq(telemetryDocs, LAMBDA doc :
                /\ doc.deviceId = q.deviceId
                /\ doc.type = q.type
                /\ (q.startTime # NoTime => getTime(doc.timestamp) >= getTime(q.startTime))
                /\ (q.endTime # NoTime => getTime(doc.timestamp) <= getTime(q.endTime))
                /\ GranuleOf(granularity, doc.timestamp) = b)
  IN  [i \in 1..Len(docs) |-> docs[i].value.n]

\* An aggregation operator applied to a non-empty sequence of numbers.
Apply(operator, ns) ==
  CASE operator = "avg"   -> Fraction(SumSeq(ns), Len(ns))
    [] operator = "min"   -> Fraction(MinSeq(ns), 1)
    [] operator = "max"   -> Fraction(MaxSeq(ns), 1)
    [] operator = "sum"   -> Fraction(SumSeq(ns), 1)
    [] operator = "count" -> Fraction(Len(ns), 1)

SameNumber(a, b) == a.n * b.d = b.n * a.d

\* The entries of the answer are, in ascending bucket order, the given operator
\* over the samples of each non-empty bucket of the given granularity.
ValuesAre(q, operator, granularity) ==
  LET buckets == {GranuleOf(granularity, telemetryDocs[i].timestamp) : i \in Matching(q)}
  IN  /\ Len(q.rows) = Cardinality(buckets)
      /\ \A k \in 1..Len(q.rows) :
           /\ k <= Cardinality(buckets)
           /\ SameNumber(q.rows[k].value,
                         Apply(operator, SamplesIn(q, granularity, Nth(buckets, k))))
           /\ q.rows[k].count = Len(SamplesIn(q, granularity, Nth(buckets, k)))

\* C24 (as stated): for every operator in avg, min, max, sum, count and every
\* granularity in minute, hour, day, week, month the value of each returned
\* bucket is that operator over the samples falling in that bucket.
C24_EveryOperatorAndGranularity ==
  (lastQuery.op = "aggregateData" /\ lastQuery.outcome = "resolved") =>
    ValuesAre(lastQuery, lastQuery.aggregation, lastQuery.timeWindow)

\* C24 (amended): for the operators avg, min, max, sum and the windows hour, day,
\* week, month the value of each returned entry is that operator over the numeric
\* values of the samples in the entry's bucket and its count is their number; the
\* name count is computed as avg and the window minute is bucketed by hour.
C24_SupportedOperatorsAndWindows ==
  (lastQuery.op = "aggregateData" /\ lastQuery.outcome = "resolved") =>
    ValuesAre(lastQuery,
              IF lastQuery.aggregation = "count" THEN "avg" ELSE lastQuery.aggregation,
              IF lastQuery.timeWindow = "minute" THEN "hour" ELSE lastQuery.timeWindow)

\* A weekly minimum was answered with two entries, one of them over two samples
\* of different values.
C24_Witness ==
  /\ lastQuery.op = "aggregateData" /\ lastQuery.outcome = "resolved"
  /\ lastQuery.aggregation = "min" /\ lastQuery.timeWindow = "week"
  /\ Len(lastQuery.rows) = 2
  /\ \E k \in 1..2 :
       /\ lastQuery.rows[k].count = 2
       /\ lastQuery.rows[k].value = Fraction(1, 1)
       /\ \E i, j \in Matching(lastQuery) :
            /\ telemetryDocs[i].value.n = 1
            /\ telemetryDocs[j].value.n = 4
            /\ week(telemetryDocs[i].timestamp) = week(telemetryDocs[j].timestamp)

\* C25: an aggregation whose range holds a reading with a value that does not
\* convert to a number still resolves; its entries count every matching reading
\* and their values are computed from the readings that convert.
C25_NonNumericExcluded ==
  (/\ lastQuery.op = "aggregateData"
   /\ \E i \in Matching(lastQuery) : ~convertible(telemetryDocs[i].value)) =>
    /\ lastQuery.outcome = "resolved"
    /\ SumCounts(lastQuery.rows) = Cardinality(Matching(lastQuery))

\* The values of the samples of the k-th of the limit equal intervals that make
\* up [startTs, endTs], k from 0; a sample at endTs belongs to the last interval.
SamplesOfInterval(q, k) ==
  LET width == (q.endTs - q.startTs) \div q.limit
      docs == SelectSeq(telemetryDocs, LAMBDA doc :
                /\ doc.entityId = q.entityId /\ doc.key = q.key
                /\ doc.ts >= q.startTs /\ doc.ts <= q.endTs
                /\ \/ (doc.ts - q.startTs) \div width = k
                   \/ doc.ts = q.endTs /\ k = q.limit - 1)
  IN  [i \in 1..Len(docs) |-> docs[i].value]

\* C23: over a range of three consecutive 20-minute intervals each holding
\* samples, the AVG and COUNT aggregations return exactly three entries, in
\* interval order, the k-th being the average, or the number, of the samples of
\* the k-th interval; a sample at the end of the range is one of the samples.
C23_ThreeBucketsExact ==
  (/\ lastQuery.op = "getTimeseries"
   /\ lastQuery.agg \in {"AVG", "COUNT"}
   /\ \A k \in 0..(lastQuery.limit - 1) : SamplesOfInterval(lastQuery, k) # <<>>) =>
    /\ Len(lastQuery.rows) = lastQuery.limit
    /\ \A k \in 1..Len(lastQuery.rows) :
         /\ k <= lastQuery.limit
         /\ SameNumber(lastQuery.rows[k].value,
                       IF lastQuery.agg = "AVG"
                         THEN Fraction(SumSeq(SamplesOfInterval(lastQuery, k - 1)),
                                       Len(SamplesOfInterval(lastQuery, k - 1)))
                         ELSE Fraction(Len(SamplesOfInterval(lastQuery, k - 1)), 1))
    /\ \A k \in 1..(Len(lastQuery.rows) - 1) : lastQuery.rows[k].ts < lastQuery.rows[k + 1].ts

\* The decoded number the spec gives for a word, a 16-bit dataType and a scaling.
Decoded(dataType, raw, s) ==
  IF dataType = "int16" /\ raw >= 32768 THEN (raw - 65536) * s ELSE raw * s

\* C26 (as stated): for every word 0..65535 and integer scaling s, int16 decodes
\* to (raw - 65536) * s when raw >= 32768 and to raw * s otherwise, and uint16
\* to raw * s.
C26_Int16SignExtends ==
  (/\ codecCall.op = "processRegisterValue"
   /\ codecCall.register.dataType \in {"int16", "uint16"}) =>
    codecCall.value =
      Number(Decoded(codecCall.register.dataType, codecCall.raw, codecCall.register.scaling))

\* C26 (amended): the same for every scaling other than 0; a scaling of 0 is
\* replaced by 1.
C26_Int16SignExtendsScaled ==
  (/\ codecCall.op = "processRegisterValue"
   /\ codecCall.register.dataType \in {"int16", "uint16"}) =>
    codecCall.value =
      Number(Decoded(codecCall.register.dataType, codecCall.raw,
                     IF codecCall.register.scaling = 0 THEN 1
                     ELSE codecCall.register.scaling))

\* The word 0xFFFF was decoded as int16 with scaling 1 and gave -1.
C26_Witness ==
  /\ codecCall.op = "processRegisterValue"
  /\ codecCall.raw = 65535
  /\ codecCall.register.dataType = "int16"
  /\ codecCall.register.scaling = 1
  /\ codecCall.value = Number(-1)

\* C27: encoding what was decoded from a word gives the word back, and the
\* encoded value is a 16-bit wire unit, for int16 and uint16 descriptors.
C27_EncodeInvertsDecode ==
  (/\ codecCall.op = "prepareValueForWrite"
   /\ codecCall.raw # NoRaw
   /\ codecCall.register.dataType \in {"int16", "uint16"}) =>
    /\ codecCall.encoded = Number(codecCall.raw)
    /\ codecCall.encoded.n \in RawWords

\* C28: decoding or encoding with a dataType outside int16, uint16, int32,
\* uint32, float, boolean yields an error, and a writeRegister whose encoding
\* fails writes nothing to the device.
C28_UnsupportedTypeRejected ==
  (codecCall.op # "none" /\ codecCall.register.dataType \notin DataTypes) =>
    /\ codecCall.op = "processRegisterValue" => codecCall.value.kind = "error"
    /\ codecCall.op = "prepareValueForWrite" => codecCall.encoded.kind = "error"
    /\ codecCall.op = "writeRegister" =>
         /\ codecCall.encoded.kind = "error"
         /\ codecCall.outcome = "rejected"
         /\ ~codecCall.wrote

\* C29: a resolved fetchLatestData holds exactly one result per configured
\* register, in configuration order, each with either a value or an error; a
\* device with registers is never refused, whatever reads fail, and every
\* register after a failed one is still read.
C29_OneResultPerRegister ==
  /\ fetchCall.pc = "reading" => Len(fetchCall.results) = fetchCall.idx - 1
  /\ fetchCall.pc = "done" =>
       IF fetchCall.registers = <<>>
         THEN fetchCall.outcome = "rejected"
         ELSE /\ fetchCall.outcome = "resolved"
              /\ Len(fetchCall.results) = Len(fetchCall.registers)
              /\ \A i \in 1..Len(fetchCall.results) :
                   /\ fetchCall.results[i].name = fetchCall.registers[i].name
                   /\ fetchCall.results[i].address = fetchCall.registers[i].address
                   /\ (fetchCall.results[i].error = "none")
                        # (fetchCall.results[i].value = NoValue)

\* The first of three registers failed and the third was read with a value.
C29_Witness ==
  /\ fetchCall.pc = "done" /\ fetchCall.outcome = "resolved"
  /\ Len(fetchCall.results) = 3
  /\ fetchCall.results[1].error # "none"
  /\ fetchCall.results[3].error = "none"
  /\ fetchCall.results[3].value # NoValue

\* A step in which the closeConnection call of caller p for device d returns:
\* at once when the entry is missing or its client is not open, or when
\* client.close() settles.
CloseReturns(p, d) ==
  \/ CloseConnection(p, d) /\ caller'[p].pc = "idle"
  \/ /\ caller[p].op = "closeConnection" /\ caller[p].pc = "close_io"
     /\ caller[p].dev = d
     /\ caller'[p].pc = "idle"

\* C30: when closeConnection returns the registry holds no session for the
\* device and the session it held is closed; a call made when the registry holds
\* no session for the device changes nothing; no call changes the entry or the
\* clients of another device.
C30_ReleaseRemovesSession ==
  [][\A p \in Callers, d \in Devices :
       CloseReturns(p, d) =>
         /\ activeConnections'[d] = NoClient
         /\ activeConnections[d] # NoClient =>
              clientState'[activeConnections[d]] # "open"
         /\ activeConnections[d] = NoClient =>
              UNCHANGED <<activeConnections, clientState, clientDev, deviceStatus>>
         /\ \A e \in Devices \ {d} : activeConnections'[e] = activeConnections[e]
         /\ \A c \in ClientIds : clientDev[c] # d => clientState'[c] = clientState[c]]_vars

\* C31: a getClient call made when the registry holds an open client for the
\* device returns that client at once, with the entry's lastConnected set to the
\* time of the call, and constructs no client and changes no registration; made
\* when the registered client is not open, it first removes that entry, leaving
\* its client not open, and only then constructs a new client and starts to
\* connect it.
C31_AcquireReusesOrReconnects ==
  [][\A p \in Callers, d \in Devices :
       GetClient(p, d) /\ activeConnections[d] # NoClient =>
         LET c == activeConnections[d] IN
         IF clientState[c] = "open"
           THEN /\ caller'[p] = IdleCaller("client", c)
                /\ lastConnected'[d] = regNow
                /\ UNCHANGED <<activeConnections, clientState, nextClient>>
           ELSE /\ activeConnections'[d] = NoClient
                /\ clientState'[c] # "open"
                /\ caller'[p].pc = "connect_io"
                /\ caller'[p].client = nextClient
                /\ nextClient' = nextClient + 1
                /\ clientState'[nextClient] = "created"]_vars

\* A getClient call has returned the registered open client at a later time than
\* the start, and the entry carries that time.
C31_Witness ==
  \E p \in Callers, d \in Devices :
    /\ caller[p].result = "client"
    /\ caller[p].client = activeConnections[d]
    /\ activeConnections[d] # NoClient
    /\ regNow > 0
    /\ lastConnected[d] = regNow

\* C32: when the connect attempt of a getClient call has failed, the call returns
\* a connection error to its caller, whether the attempt was the first connection
\* of the device or the reconnect of a registered client that was not open, and
\* the client whose connect failed is not left in the registry.
C32_ConnectFailureReported ==
  [][\A p \in Callers :
       /\ caller[p].op = "getClient"
       /\ caller[p].pc = "status_io"
       /\ ~caller[p].ok
       /\ caller'[p].pc = "idle"
       => /\ caller'[p].result = "connectError"
          /\ activeConnections'[caller[p].dev] # caller[p].client]_vars

\* C33: the periodic check restarts the connection of a device on account of a
\* failed check read only when three check reads of the device in a row have failed,
\* a successful check read setting the count back to none.
C33_ReconnectAfterThreeFailures ==
  sweep.pc = "catch" => pingFailures[sweep.dev] >= 3

\* A connect attempt for device d has just failed.
ConnectFailed(d) ==
  \E p \in AllCallers :
    caller[p].pc = "status_io" /\ ~caller[p].ok /\ caller[p].dev = d

\* C34: after a connect or reconnect attempt for a device has failed, the periodic
\* check alone brings the device back: the registry eventually holds an open client
\* for it, without any further call from outside.
C34_SweepRetriesFailedConnection ==
  \A d \in Devices :
    ConnectFailed(d) ~>
      (activeConnections[d] # NoClient /\ clientState[activeConnections[d]] = "open")

\* C35: a reading that the handling of a published message stores is stored under
\* the id of the authenticated device that published the message.
C35_StoredUnderPublisherId ==
  [][\A r \in stored' \ stored : r.deviceId = lastPublish.deviceInfo]_vars

\* The runs of extractAndSaveData in progress for device d, over all intervals.
RECURSIVE SumTicks(_)
SumTicks(hs) ==
  IF hs = {} THEN 0
  ELSE LET h == CHOOSE x \in hs : TRUE IN ticksRunning[h] + SumTicks(hs \ {h})
TicksRunningFor(d) == SumTicks({h \in TimerIds : timerDevice[h] = d})

\* C36: at most one polling tick of a device is running at any instant.
C36_OneTickPerDevice ==
  \A d \in Devices : TicksRunningFor(d) <= 1

\* C37: a tick that saves its data points and emits its data update belongs to an
\* interval that is still set: after stopPolling, or after startPolling has
\* replaced the interval, no tick of the cleared interval saves or emits.
C37_CancelledTaskSilent ==
  [][\A h \in TimerIds : ExtractAndSaveDone(h, TRUE) => h \in activeTimers]_vars

\* C39: a packet published by the internal client is not dispatched to the
\* telemetry, attribute or RPC request handler, whatever its topic: handling it
\* saves nothing and publishes no system message.
C39_InternalNotDispatched ==
  [][\A p \in MqttClients, t \in PublishTopics, pl \in PublishPayloads :
       HandlePublish(p, t, pl) /\ mclient[p].isInternal =>
         /\ lastPublish'.route \notin {"telemetry", "attributes", "rpcRequest"}
         /\ ~lastPublish'.processed
         /\ UNCHANGED <<tcall, stored, saveLog, sysLog>>]_vars

\* After a device message has made the gateway publish a system message, a packet
\* of the internal client on the system topic has been handled.
C39_Witness ==
  /\ sysLog # {}
  /\ lastPublish.publisher # NoMqttClient
  /\ lastPublish.route = "internal"
  /\ lastPublish.topic = SystemTopic(<<"device", "/", "attributes">>)

\* C38: when no registry call and no pass of the periodic check is in progress, a
\* device record has status 'online' only if the registry holds an entry for the
\* device.
C38_OnlineOnlyWithSession ==
  (sweep.pc = "idle" /\ \A p \in AllCallers : caller[p].pc = "idle") =>
     \A d \in Devices : deviceStatus[d] = "online" => activeConnections[d] # NoClient

\* C40: a call that has persisted a reading is not rejected on account of a
\* subscriber callback: it persists the readings the data alone determines and
\* makes the rules hand-off for each of them when a rules engine is set.
C40_SubscriberFailureContained ==
  (tcall.pc = "done" /\ tcall.savedIdx # {} /\ ~tcall.dbFailed) =>
     /\ tcall.error # "listener"
     /\ tcall.savedIdx = AcceptedSlots(tcall.data)
     /\ \A slot \in tcall.savedIdx :
          tcall.handed[slot] = IF rulesEngine THEN 1 ELSE 0

====
